---------------------------- MODULE Spec2Model ----------------------------
(***************************************************************************)
(* Model of the SCI resource codecs of SCIHebrew: the bitmap font codec    *)
(* (parse_font.py / build_font.py), the message table codec (parse_msg.py  *)
(* / create_msg.py) and the string resource codec (tex2tsv.py /            *)
(* tsv2tex.py), with the whole-directory drivers, map_files.py, tsv2tex    *)
(* runs into one directory, and two calls at the same time.  Files are     *)
(* sequences of bytes (0..255), texts are sequences of Unicode code        *)
(* points, and every script run is one action; only the two calls at the   *)
(* same time are taken one read or write at a time.                        *)
(***************************************************************************)
EXTENDS Integers, Sequences, FiniteSets, TLC

VARIABLES
    \* font pipeline
    fontIn,         \* the font binary given to parse_font ([exists, bytes])
    pngA,           \* PNG directory written by parse_font / given to build_font
    lineHeightArg,  \* --line-height argument of build_font
    fontOut,        \* outcome of build_font ([status, bytes])
    pngB,           \* outcome of parse_font on the built font ([status, pngs])
    fstep,          \* position in the font pipeline
    \* message pipeline
    msgIn,          \* the message binary given to parse_msg ([exists, bytes])
    csvFile,        \* the CSV exchanged between parse_msg and create_msg
    msgOut,         \* outcome of create_msg_file ([status, bytes])
    msgs2,          \* outcome of parse_msg_file on the built file
    mstep,          \* position in the message pipeline
    \* string resource pipeline
    texIn,          \* the text resource given to tex2tsv ([exists, bytes])
    strsA,          \* strings read_tex_strings returned for texIn
    tsvFile,        \* the TSV exchanged between tex2tsv and tsv2tex
    texOut,         \* outcome of convert_tsv_to_tex ([status, bytes])
    strsB,          \* strings read_tex_strings returns for texOut
    tstep,          \* position in the string resource pipeline
    \* whole-directory runs
    driver,         \* the script run on a directory
    dirIn,          \* the files of the input directory the run lists ([name, readable, bytes])
    mappingIn,      \* text of the mapping file given to translate_texts
    batchOut,       \* outcome of the run ([status, results])
    bstep,          \* position of the whole-directory run
    \* mapping of two text files
    mapIn1,         \* text of the first input file of map_files (English)
    mapIn2,         \* text of the second input file of map_files (Hebrew)
    multilineArg,   \* --multiline
    appendArg,      \* --append
    mapOut,         \* outcome of map_files ([status, warned, text])
    mapStep,        \* position of the map_files run
    \* tsv2tex runs into one output directory
    selTsv,         \* the TSV file of each module of the set (module -> TSV)
    selDir,         \* the .tex files of the output directory (module -> file)
    selRan,         \* the modules tsv2tex has been run for
    \* two calls at the same time
    parCalls,       \* the two calls ([kind, input])
    parState,       \* position of each call ([pc, k])
    parFiles        \* the output file of each call ([exists, content])

fontVars == <<fontIn, pngA, lineHeightArg, fontOut, pngB, fstep>>
msgVars == <<msgIn, csvFile, msgOut, msgs2, mstep>>
texVars == <<texIn, strsA, tsvFile, texOut, strsB, tstep>>
batchVars == <<driver, dirIn, mappingIn, batchOut, bstep>>
mapVars == <<mapIn1, mapIn2, multilineArg, appendArg, mapOut, mapStep>>
selVars == <<selTsv, selDir, selRan>>
parVars == <<parCalls, parState, parFiles>>
vars == <<fontVars, msgVars, texVars, batchVars, mapVars, selVars, parVars>>

---------------------------------------------------------------------------
(* Bounds of the model *)

\* most glyph slots of a font / files of a PNG directory
MaxChars == 2
\* most records of a message table
MaxMsgs == 2
\* most bytes after the 2-byte header of a text resource
MaxTexLen == 4
\* most lines after the header line of a TSV file that was not written by tex2tsv
MaxTsvLines == 2
\* most bytes missing at the end of a font or message file that was cut off
MaxCut == 2

---------------------------------------------------------------------------
(* Bytes, little-endian integers and reads of a file *)

Byte == 0..255

Min(a, b) == IF a < b THEN a ELSE b

RECURSIVE Pow2(_)
Pow2(n) == IF n = 0 THEN 1 ELSE 2 * Pow2(n - 1)

RECURSIVE SumSeq(_)
SumSeq(s) == IF s = <<>> THEN 0 ELSE Head(s) + SumSeq(Tail(s))

RECURSIVE Flatten(_)
Flatten(ss) == IF ss = <<>> THEN <<>> ELSE Head(ss) \o Flatten(Tail(ss))

\* sequences over S of length 0..n
SeqsUpTo(S, n) == UNION {[1..k -> S] : k \in 0..n}

\* struct.pack('<H', v), struct.pack('<I', v); callers check the range first
PackU16(v) == <<v % 256, (v \div 256) % 256>>
PackU32(v) == <<v % 256, (v \div 256) % 256, (v \div 65536) % 256, (v \div 16777216) % 256>>
FitsU8(v) == v >= 0 /\ v <= 255
FitsU16(v) == v >= 0 /\ v <= 65535

\* f.seek(pos); f.read(n): the bytes that exist, possibly fewer than n
ReadAt(f, pos, n) == SubSeq(f, pos + 1, Min(pos + n, Len(f)))
\* struct.unpack('<H', two bytes)
UnpackU16(b) == b[1] + 256 * b[2]
UnpackU32(b) == b[1] + 256 * b[2] + 65536 * b[3] + 16777216 * b[4]

NoFile == [exists |-> FALSE, bytes |-> <<>>]
FileOf(b) == [exists |-> TRUE, bytes |-> b]

\* what a build left behind: whether it succeeded, and the output file
Outcome(status, exists, bytes) == [status |-> status, exists |-> exists, bytes |-> bytes]
NoOutcome == Outcome("none", FALSE, <<>>)

\* values of the variables of a pipeline that has not produced them yet
NoPngs == [status |-> "none", pngs |-> {}]
NoMsgs == [status |-> "none", messages |-> <<>>]
NoCsv == [exists |-> FALSE, rows |-> <<>>]
NoStrings == [status |-> "none", strings |-> <<>>]
NoBatch == [status |-> "none", results |-> <<>>]
NoMapping == [status |-> "none", warned |-> FALSE, text |-> <<>>]
NoTsv == [exists |-> FALSE, text |-> <<>>]

---------------------------------------------------------------------------
(* Character sets: a text is a sequence of Unicode code points.  The       *)
(* tables give the code point of each byte (-1: the byte is undefined).    *)

CP862Table ==
  <<
     0, 1, 2, 3, 4, 5, 6, 7, 8, 9, 10, 11, 12, 13, 14, 15,
     16, 17, 18, 19, 20, 21, 22, 23, 24, 25, 26, 27, 28, 29, 30, 31,
     32, 33, 34, 35, 36, 37, 38, 39, 40, 41, 42, 43, 44, 45, 46, 47,
     48, 49, 50, 51, 52, 53, 54, 55, 56, 57, 58, 59, 60, 61, 62, 63,
     64, 65, 66, 67, 68, 69, 70, 71, 72, 73, 74, 75, 76, 77, 78, 79,
     80, 81, 82, 83, 84, 85, 86, 87, 88, 89, 90, 91, 92, 93, 94, 95,
     96, 97, 98, 99, 100, 101, 102, 103, 104, 105, 106, 107, 108, 109, 110, 111,
     112, 113, 114, 115, 116, 117, 118, 119, 120, 121, 122, 123, 124, 125, 126, 127,
     1488, 1489, 1490, 1491, 1492, 1493, 1494, 1495, 1496, 1497, 1498, 1499, 1500, 1501, 1502, 1503,
     1504, 1505, 1506, 1507, 1508, 1509, 1510, 1511, 1512, 1513, 1514, 162, 163, 165, 8359, 402,
     225, 237, 243, 250, 241, 209, 170, 186, 191, 8976, 172, 189, 188, 161, 171, 187,
     9617, 9618, 9619, 9474, 9508, 9569, 9570, 9558, 9557, 9571, 9553, 9559, 9565, 9564, 9563, 9488,
     9492, 9524, 9516, 9500, 9472, 9532, 9566, 9567, 9562, 9556, 9577, 9574, 9568, 9552, 9580, 9575,
     9576, 9572, 9573, 9561, 9560, 9554, 9555, 9579, 9578, 9496, 9484, 9608, 9604, 9612, 9616, 9600,
     945, 223, 915, 960, 931, 963, 181, 964, 934, 920, 937, 948, 8734, 966, 949, 8745,
     8801, 177, 8805, 8804, 8992, 8993, 247, 8776, 176, 8729, 183, 8730, 8319, 178, 9632, 160
  >>

CP1255Table ==
  <<
     0, 1, 2, 3, 4, 5, 6, 7, 8, 9, 10, 11, 12, 13, 14, 15,
     16, 17, 18, 19, 20, 21, 22, 23, 24, 25, 26, 27, 28, 29, 30, 31,
     32, 33, 34, 35, 36, 37, 38, 39, 40, 41, 42, 43, 44, 45, 46, 47,
     48, 49, 50, 51, 52, 53, 54, 55, 56, 57, 58, 59, 60, 61, 62, 63,
     64, 65, 66, 67, 68, 69, 70, 71, 72, 73, 74, 75, 76, 77, 78, 79,
     80, 81, 82, 83, 84, 85, 86, 87, 88, 89, 90, 91, 92, 93, 94, 95,
     96, 97, 98, 99, 100, 101, 102, 103, 104, 105, 106, 107, 108, 109, 110, 111,
     112, 113, 114, 115, 116, 117, 118, 119, 120, 121, 122, 123, 124, 125, 126, 127,
     8364, -1, 8218, 402, 8222, 8230, 8224, 8225, 710, 8240, -1, 8249, -1, -1, -1, -1,
     -1, 8216, 8217, 8220, 8221, 8226, 8211, 8212, 732, 8482, -1, 8250, -1, -1, -1, -1,
     160, 161, 162, 163, 8362, 165, 166, 167, 168, 169, 215, 171, 172, 173, 174, 175,
     176, 177, 178, 179, 180, 181, 182, 183, 184, 185, 247, 187, 188, 189, 190, 191,
     1456, 1457, 1458, 1459, 1460, 1461, 1462, 1463, 1464, 1465, -1, 1467, 1468, 1469, 1470, 1471,
     1472, 1473, 1474, 1475, 1520, 1521, 1522, 1523, 1524, -1, -1, -1, -1, -1, -1, -1,
     1488, 1489, 1490, 1491, 1492, 1493, 1494, 1495, 1496, 1497, 1498, 1499, 1500, 1501, 1502, 1503,
     1504, 1505, 1506, 1507, 1508, 1509, 1510, 1511, 1512, 1513, 1514, -1, -1, 8206, 8207, -1
  >>

\* bytes.decode('windows-1252'): code point of each byte, -1 for a byte that is not defined
CP1252Table ==
  <<
     0, 1, 2, 3, 4, 5, 6, 7, 8, 9, 10, 11, 12, 13, 14, 15,
     16, 17, 18, 19, 20, 21, 22, 23, 24, 25, 26, 27, 28, 29, 30, 31,
     32, 33, 34, 35, 36, 37, 38, 39, 40, 41, 42, 43, 44, 45, 46, 47,
     48, 49, 50, 51, 52, 53, 54, 55, 56, 57, 58, 59, 60, 61, 62, 63,
     64, 65, 66, 67, 68, 69, 70, 71, 72, 73, 74, 75, 76, 77, 78, 79,
     80, 81, 82, 83, 84, 85, 86, 87, 88, 89, 90, 91, 92, 93, 94, 95,
     96, 97, 98, 99, 100, 101, 102, 103, 104, 105, 106, 107, 108, 109, 110, 111,
     112, 113, 114, 115, 116, 117, 118, 119, 120, 121, 122, 123, 124, 125, 126, 127,
     8364, -1, 8218, 402, 8222, 8230, 8224, 8225, 710, 8240, 352, 8249, 338, -1, 381, -1,
     -1, 8216, 8217, 8220, 8221, 8226, 8211, 8212, 732, 8482, 353, 8250, 339, -1, 382, 376,
     160, 161, 162, 163, 164, 165, 166, 167, 168, 169, 170, 171, 172, 173, 174, 175,
     176, 177, 178, 179, 180, 181, 182, 183, 184, 185, 186, 187, 188, 189, 190, 191,
     192, 193, 194, 195, 196, 197, 198, 199, 200, 201, 202, 203, 204, 205, 206, 207,
     208, 209, 210, 211, 212, 213, 214, 215, 216, 217, 218, 219, 220, 221, 222, 223,
     224, 225, 226, 227, 228, 229, 230, 231, 232, 233, 234, 235, 236, 237, 238, 239,
     240, 241, 242, 243, 244, 245, 246, 247, 248, 249, 250, 251, 252, 253, 254, 255
  >>

\* bytes.decode('CP862'): total, every byte is defined
DecodeCP862(bs) == [i \in 1..Len(bs) |-> CP862Table[bs[i] + 1]]

\* bytes.decode('windows-1255'): fails on an undefined byte
CanDecode1255(bs) == \A i \in 1..Len(bs) : CP1255Table[bs[i] + 1] >= 0
DecodeCP1255(bs) == [i \in 1..Len(bs) |-> CP1255Table[bs[i] + 1]]

\* str.encode('Windows-1255'): fails on a character the codepage lacks
CanEncode1255(t) == \A i \in 1..Len(t) : \E b \in Byte : CP1255Table[b + 1] = t[i]
EncodeCP1255(t) == [i \in 1..Len(t) |-> CHOOSE b \in Byte : CP1255Table[b + 1] = t[i]]

\* str.encode('utf-8') of one code point (surrogates cannot be encoded)
IsSurrogate(c) == c >= 55296 /\ c <= 57343
Utf8Char(c) ==
    IF c < 128 THEN <<c>>
    ELSE IF c < 2048 THEN <<192 + (c \div 64), 128 + (c % 64)>>
    ELSE IF c < 65536 THEN <<224 + (c \div 4096), 128 + ((c \div 64) % 64), 128 + (c % 64)>>
    ELSE <<240 + (c \div 262144), 128 + ((c \div 4096) % 64),
           128 + ((c \div 64) % 64), 128 + (c % 64)>>
CanEncodeUtf8(t) == \A i \in 1..Len(t) : ~IsSurrogate(t[i])
EncodeUtf8(t) == Flatten([i \in 1..Len(t) |-> Utf8Char(t[i])])

\* str.encode('latin1')
CanEncodeLatin1(t) == \A i \in 1..Len(t) : t[i] <= 255
EncodeLatin1(t) == t

\* bytes.decode('windows-1252') and str.encode('windows-1252') of translate_texts
CanDecode1252(bs) == \A i \in 1..Len(bs) : CP1252Table[bs[i] + 1] >= 0
DecodeCP1252(bs) == [i \in 1..Len(bs) |-> CP1252Table[bs[i] + 1]]
EncodeCP1252(t) == [i \in 1..Len(t) |-> CHOOSE b \in Byte : CP1252Table[b + 1] = t[i]]
---------------------------------------------------------------------------
(* Bitmap font codec: parse_font.py and build_font.py.                     *)
(* An image is [w, h, px] with px[y][x] in {0, 1} (PIL mode '1'); a PNG    *)
(* directory is a set of files [idx, img], at most one per idx.            *)

BytesPerRow(width) == (width + 7) \div 8

\* mutant of create_image: pixel (x, y) read from bit x%8, LSB-first
create_image_lsb_first(width, height, bitmap_data) ==
    [w |-> width, h |-> height,
     px |-> [y \in 1..height |-> [x \in 1..width |->
        LET byte_index == (y - 1) * BytesPerRow(width) + ((x - 1) \div 8)
            bit_index == (x - 1) % 8
        IN  IF byte_index < Len(bitmap_data)
            THEN (bitmap_data[byte_index + 1] \div Pow2(bit_index)) % 2
            ELSE 0]]]

\* create_image: pixel (x, y) is bit 7 - x%8 of byte y*bytes_per_row + x//8
create_image(width, height, bitmap_data) ==
    [w |-> width, h |-> height,
     px |-> [y \in 1..height |-> [x \in 1..width |->
        LET byte_index == (y - 1) * BytesPerRow(width) + ((x - 1) \div 8)
            bit_index == 7 - ((x - 1) % 8)
        IN  IF byte_index < Len(bitmap_data)
            THEN (bitmap_data[byte_index + 1] \div Pow2(bit_index)) % 2
            ELSE 0]]]

\* the glyph loop of parse_font from char_num on; pngs are the files saved so far
RECURSIVE ParseGlyphs(_, _, _, _, _)
ParseGlyphs(f, char_pointers, char_num, num_chars, pngs) ==
    IF char_num >= num_chars THEN [status |-> "ok", pngs |-> pngs]
    ELSE
      LET actual_address == char_pointers[char_num + 1] + 2
          wb == ReadAt(f, actual_address, 1)
          hb == ReadAt(f, actual_address + 1, 1)
      IN  IF Len(wb) < 1 \/ Len(hb) < 1
          THEN [status |-> "error", pngs |-> pngs]      \* struct.error
          ELSE
            LET width == wb[1]
                height == hb[1]
                bitmap_size == height * BytesPerRow(width)
                bitmap_data == ReadAt(f, actual_address + 2, bitmap_size)
            IN  IF width = 0 \/ height = 0
                THEN ParseGlyphs(f, char_pointers, char_num + 1, num_chars, pngs)
                ELSE IF Len(bitmap_data) < bitmap_size    \* "Incomplete data"
                THEN ParseGlyphs(f, char_pointers, char_num + 1, num_chars, pngs)
                ELSE ParseGlyphs(f, char_pointers, char_num + 1, num_chars,
                        pngs \cup {[idx |-> char_num,
                                    img |-> create_image(width, height, bitmap_data)]})

\* parse_font on the bytes f of a font file
parse_font(f) ==
    IF Len(f) < 8 THEN [status |-> "error", pngs |-> {}]
    ELSE
      LET num_chars == UnpackU16(ReadAt(f, 4, 2))
      IN  IF Len(f) < 8 + 2 * num_chars THEN [status |-> "error", pngs |-> {}]
          ELSE
            LET char_pointers == [i \in 1..num_chars |-> UnpackU16(ReadAt(f, 8 + 2 * (i - 1), 2))]
            IN  ParseGlyphs(f, char_pointers, 0, num_chars, {})

\* header fields parse_font reads and prints
FontReserved(f) == UnpackU32(ReadAt(f, 0, 4))
FontNumChars(f) == UnpackU16(ReadAt(f, 4, 2))
FontLineHeight(f) == UnpackU16(ReadAt(f, 6, 2))

\* mutant of RowByte: the bits of a byte packed LSB-first
RowByteLsbFirst(img, y, byte_idx) ==
    SumSeq([k \in 1..8 |->
        LET x == byte_idx * 8 + (k - 1)
        IN  IF x < img.w /\ img.px[y][x + 1] # 0 THEN Pow2(k - 1) ELSE 0])

\* one packed byte of read_png_to_bitmap: bit 7 - bit_idx is pixel byte_idx*8 + bit_idx
RowByte(img, y, byte_idx) ==
    SumSeq([k \in 1..8 |->
        LET x == byte_idx * 8 + (k - 1)
        IN  IF x < img.w /\ img.px[y][x + 1] # 0 THEN Pow2(7 - (k - 1)) ELSE 0])

\* read_png_to_bitmap: (width, height, bitmap) of an image
read_png_to_bitmap(img) ==
    [w |-> img.w, h |-> img.h,
     bitmap |-> Flatten([y \in 1..img.h |->
                    [b \in 1..BytesPerRow(img.w) |-> RowByte(img, y, b - 1)]])]

EmptyChar == [w |-> 0, h |-> 0, bitmap |-> <<>>]

PngIndices(pngs) == {p.idx : p \in pngs}
\* mutant of MaxIndex: the number of files stands for the highest index
LastOfCount(S) == Cardinality(S) - 1
MaxIndex(S) == CHOOSE m \in S : \A k \in S : k <= m

\* char_data of build_font: one entry per slot 0..num_chars-1
CharData(pngs, num_chars) ==
    [i \in 1..num_chars |->
        IF (i - 1) \in PngIndices(pngs)
        THEN read_png_to_bitmap((CHOOSE p \in pngs : p.idx = i - 1).img)
        ELSE EmptyChar]

\* the pointer the builder stores for slot i (0-based)
RECURSIVE FontOffsetOf(_, _, _)
FontOffsetOf(char_data, data_start, i) ==
    IF i = 0 THEN data_start
    ELSE FontOffsetOf(char_data, data_start, i - 1) + 2 + Len(char_data[i].bitmap)

\* mutant of FontPointers: the true offsets, stored without the bias of -2
FontPointersUnbiased(char_data, num_chars) ==
    [i \in 1..num_chars |-> FontOffsetOf(char_data, 8 + num_chars * 2, i - 1)]

FontPointers(char_data, num_chars) ==
    [i \in 1..num_chars |-> FontOffsetOf(char_data, 8 + num_chars * 2, i - 1) - 2]

\* the reserved field build_font writes
FontReservedValue == 135

\* build_font: the font file for a PNG directory, or no file
build_font(pngs, line_height) ==
    IF pngs = {} THEN Outcome("error", FALSE, <<>>)             \* "No PNG files found"
    ELSE
      LET num_chars == MaxIndex(PngIndices(pngs)) + 1
          char_data == CharData(pngs, num_chars)
          pointers == FontPointers(char_data, num_chars)
      IN  IF \/ ~FitsU16(num_chars) \/ ~FitsU16(line_height)
             \/ \E i \in 1..num_chars : ~FitsU16(pointers[i])
             \/ \E i \in 1..num_chars : ~FitsU8(char_data[i].w) \/ ~FitsU8(char_data[i].h)
          THEN Outcome("error", FALSE, <<>>)                    \* struct.error / ValueError
          ELSE Outcome("ok", TRUE,
                    PackU32(FontReservedValue) \o PackU16(num_chars) \o PackU16(line_height)
                    \o Flatten([i \in 1..num_chars |-> PackU16(pointers[i])])
                    \o Flatten([i \in 1..num_chars |->
                            <<char_data[i].w, char_data[i].h>> \o char_data[i].bitmap]))

---------------------------------------------------------------------------
(* Font inputs: well-formed font binaries and PNG directories *)

\* glyphs as they lie in a font file: width, height, packed rows
GlyphPool ==
    { [w |-> 1, h |-> 1, bitmap |-> <<128>>],
      [w |-> 8, h |-> 1, bitmap |-> <<240>>],
      [w |-> 9, h |-> 2, bitmap |-> <<129, 128, 64, 0>>],
      [w |-> 2, h |-> 2, bitmap |-> <<64, 128>>],
      EmptyChar }

\* images as they lie in a PNG directory
ImagePool ==
    { [w |-> 1, h |-> 1, px |-> << <<1>> >>],
      [w |-> 8, h |-> 1, px |-> << <<1, 1, 1, 1, 0, 0, 0, 0>> >>],
      [w |-> 9, h |-> 2, px |-> << <<1, 0, 0, 0, 0, 0, 0, 1, 1>>,
                                   <<0, 1, 0, 0, 0, 0, 0, 0, 0>> >>],
      [w |-> 2, h |-> 2, px |-> << <<0, 1>>, <<1, 0>> >>] }

ReservedPool == {135, 0}
LineHeightPool == {12, 8}

\* true file offset of glyph i (0-based) when payloads follow the pointer table in order
RECURSIVE GlyphOffset(_, _)
GlyphOffset(glyphs, i) ==
    IF i = 0 THEN 8 + 2 * Len(glyphs)
    ELSE GlyphOffset(glyphs, i - 1) + 2 + Len(glyphs[i].bitmap)

\* the font binary layout: u32 reserved | u16 numChars | u16 lineHeight |
\* numChars x u16 pointer (biased by -2) | per glyph: width, height, bitmap
FontLayout(reserved, line_height, glyphs) ==
    PackU32(reserved) \o PackU16(Len(glyphs)) \o PackU16(line_height)
    \o Flatten([i \in 1..Len(glyphs) |-> PackU16(GlyphOffset(glyphs, i - 1) - 2)])
    \o Flatten([i \in 1..Len(glyphs) |-> <<glyphs[i].w, glyphs[i].h>> \o glyphs[i].bitmap])

WellFormedFonts ==
    { FontLayout(r, lh, gs) : r \in ReservedPool, lh \in LineHeightPool,
                              gs \in SeqsUpTo(GlyphPool, MaxChars) }

\* font binaries that end early: a well-formed font without its last bytes
CutFonts ==
    { SubSeq(f, 1, Len(f) - k) : f \in WellFormedFonts, k \in 1..MaxCut }

\* PNG directories with files 5.png and 9.png only
SparsePngDirs == { {[idx |-> 5, img |-> a], [idx |-> 9, img |-> b]} : a, b \in ImagePool }

\* PNG directories: for each index below MaxChars an image of the pool or no file
PngDirs ==
    UNION { { {[idx |-> i, img |-> sel[i]] : i \in S} : sel \in [S -> ImagePool] } :
            S \in SUBSET (0..(MaxChars - 1)) }
    \cup SparsePngDirs


\* either a font binary to parse, or a PNG directory to build from
FontInit ==
    /\ lineHeightArg \in LineHeightPool
    /\ fontOut = NoOutcome
    /\ pngB = NoPngs
    /\ \/ /\ fontIn \in {FileOf(f) : f \in WellFormedFonts \cup CutFonts}
          /\ pngA = NoPngs
          /\ fstep = "start"
       \/ /\ fontIn = NoFile
          /\ pngA \in {[status |-> "ok", pngs |-> d] : d \in PngDirs}
          /\ fstep = "parsed"
    /\ msgIn = NoFile /\ csvFile = NoCsv /\ msgOut = NoOutcome /\ msgs2 = NoMsgs
    /\ mstep = "idle"
    /\ texIn = NoFile /\ strsA = NoStrings /\ tsvFile = NoTsv /\ texOut = NoOutcome
    /\ strsB = NoStrings /\ tstep = "idle"
    /\ driver = "none" /\ dirIn = {} /\ mappingIn = <<>> /\ batchOut = NoBatch
    /\ bstep = "idle"
    /\ mapIn1 = <<>> /\ mapIn2 = <<>> /\ multilineArg = FALSE /\ appendArg = FALSE
    /\ mapOut = NoMapping /\ mapStep = "idle"
    /\ selTsv = <<>> /\ selDir = <<>> /\ selRan = {}
    /\ parCalls = <<>> /\ parState = <<>> /\ parFiles = <<>>

\* python parse_font.py font_file output_dir
ParseFont ==
    /\ fstep = "start"
    /\ pngA' = parse_font(fontIn.bytes)
    /\ fstep' = "parsed"
    /\ UNCHANGED <<fontIn, lineHeightArg, fontOut, pngB, msgVars, texVars, batchVars,
                   mapVars, selVars, parVars>>

\* python build_font.py input_dir output_dir --line-height N
BuildFont ==
    /\ fstep = "parsed"
    /\ pngA.status = "ok"
    /\ fontOut' = build_font(pngA.pngs, lineHeightArg)
    /\ fstep' = "built"
    /\ UNCHANGED <<fontIn, pngA, lineHeightArg, pngB, msgVars, texVars, batchVars,
                   mapVars, selVars, parVars>>

\* python parse_font.py on the font that build_font wrote
ReparseFont ==
    /\ fstep = "built"
    /\ fontOut.status = "ok"
    /\ pngB' = parse_font(fontOut.bytes)
    /\ fstep' = "reparsed"
    /\ UNCHANGED <<fontIn, pngA, lineHeightArg, fontOut, msgVars, texVars, batchVars,
                   mapVars, selVars, parVars>>

FontNext == ParseFont \/ BuildFont \/ ReparseFont

---------------------------------------------------------------------------
(* Message table codec: parse_msg.py and create_msg.py.                    *)
(* A message is a record of nine one-byte fields, text_offset and text; a  *)
(* CSV row holds the same columns as cells: a numeric cell holds its       *)
(* number, any other cell is not accepted by int().                        *)

ByteFields == <<"noun", "verb", "case", "sequence", "talker",
                "ref_noun", "ref_verb", "ref_case", "ref_sequence">>

IntCell(n) == [num |-> TRUE, val |-> n]
BlankCell == [num |-> FALSE, val |-> 0]

\* the read loop of parse_msg_file: bytes from pos up to a null byte or the end of the file
RECURSIVE ReadCString(_, _)
ReadCString(f, pos) ==
    IF pos >= Len(f) \/ f[pos + 1] = 0 THEN <<>>
    ELSE <<f[pos + 1]>> \o ReadCString(f, pos + 1)

\* the decode chain of parse_msg_file: CP862, which accepts every byte
DecodeMsgText(text_bytes) == DecodeCP862(text_bytes)

\* one 11-byte record of the table, read at pos
ReadMsgHeader(f, pos) ==
    [noun |-> f[pos + 1], verb |-> f[pos + 2], case |-> f[pos + 3],
     sequence |-> f[pos + 4], talker |-> f[pos + 5],
     text_offset |-> UnpackU16(ReadAt(f, pos + 5, 2)),
     ref_noun |-> f[pos + 8], ref_verb |-> f[pos + 9],
     ref_case |-> f[pos + 10], ref_sequence |-> f[pos + 11]]

WithText(header, text) ==
    [noun |-> header.noun, verb |-> header.verb, case |-> header.case,
     sequence |-> header.sequence, talker |-> header.talker,
     text_offset |-> header.text_offset,
     ref_noun |-> header.ref_noun, ref_verb |-> header.ref_verb,
     ref_case |-> header.ref_case, ref_sequence |-> header.ref_sequence,
     text |-> text]

\* header fields parse_msg_file reads
MsgDataSize(f) == UnpackU16(ReadAt(f, 6, 2))
MsgLastId(f) == UnpackU16(ReadAt(f, 8, 2))
MsgCount(f) == UnpackU16(ReadAt(f, 10, 2))

\* the texts of a message file read one after the other from the end of the table
RECURSIVE SequentialTexts(_, _, _)
SequentialTexts(f, pos, n) ==
    IF n = 0 THEN <<>>
    ELSE LET text_bytes == ReadCString(f, pos)
         IN  <<text_bytes>> \o SequentialTexts(f, pos + Len(text_bytes) + 1, n - 1)

\* mutant of parse_msg_file: text i is the i-th text behind the table, whatever the
\* textOffset of record i
parse_msg_file_sequential_texts(f) ==
    IF Len(f) < 12 THEN [status |-> "error", messages |-> <<>>]
    ELSE
      LET count == MsgCount(f)
      IN  IF Len(f) < 12 + 11 * count THEN [status |-> "error", messages |-> <<>>]
          ELSE [status |-> "ok",
                messages |-> [i \in 1..count |->
                    WithText(ReadMsgHeader(f, 12 + 11 * (i - 1)),
                             DecodeMsgText(SequentialTexts(f, 12 + 11 * count, count)[i]))]]

\* parse_msg_file on the bytes f of a message file
parse_msg_file(f) ==
    IF Len(f) < 12 THEN [status |-> "error", messages |-> <<>>]           \* struct.error
    ELSE
      LET count == MsgCount(f)
      IN  IF Len(f) < 12 + 11 * count THEN [status |-> "error", messages |-> <<>>]
          ELSE [status |-> "ok",
                messages |-> [i \in 1..count |->
                    LET header == ReadMsgHeader(f, 12 + 11 * (i - 1))
                        text_pos == 2 + header.text_offset
                    IN  WithText(header, DecodeMsgText(ReadCString(f, text_pos)))]]

\* export_to_csv: one row per message; nothing is written when there are no messages
export_to_csv(messages) ==
    IF messages = <<>> THEN NoCsv
    ELSE [exists |-> TRUE,
          rows |-> [i \in 1..Len(messages) |->
              [noun |-> IntCell(messages[i].noun), verb |-> IntCell(messages[i].verb),
               case |-> IntCell(messages[i].case), sequence |-> IntCell(messages[i].sequence),
               talker |-> IntCell(messages[i].talker),
               text_offset |-> IntCell(messages[i].text_offset),
               ref_noun |-> IntCell(messages[i].ref_noun),
               ref_verb |-> IntCell(messages[i].ref_verb),
               ref_case |-> IntCell(messages[i].ref_case),
               ref_sequence |-> IntCell(messages[i].ref_sequence),
               text |-> messages[i].text]]]

\* the CSV is opened in text mode without newline='': inside a field "\r\n" and "\r"
\* are read as "\n"
RECURSIVE UniversalNewlines(_)
UniversalNewlines(t) ==
    IF t = <<>> THEN <<>>
    ELSE IF Head(t) = 13
         THEN IF Len(t) >= 2 /\ t[2] = 10
              THEN <<10>> \o UniversalNewlines(Tail(Tail(t)))
              ELSE <<10>> \o UniversalNewlines(Tail(t))
         ELSE <<Head(t)>> \o UniversalNewlines(Tail(t))

\* int(row[...]) succeeds for every numeric column of the row
RowIsNumeric(row) ==
    /\ \A k \in 1..Len(ByteFields) : row[ByteFields[k]].num
    /\ row.text_offset.num

\* mutant of CanEncodeMsgText: Windows-1255 only, no fallback
CanEncodeMsgTextStrict(t) == CanEncode1255(t)

\* the encode chain of create_msg_file: Windows-1255, then UTF-8, then Latin-1
CanEncodeMsgText(t) == CanEncode1255(t) \/ CanEncodeUtf8(t) \/ CanEncodeLatin1(t)
EncodeMsgText(t) ==
    IF CanEncode1255(t) THEN EncodeCP1255(t)
    ELSE IF CanEncodeUtf8(t) THEN EncodeUtf8(t)
    ELSE EncodeLatin1(t)

\* mutant of MsgHeaderBytes: text_offset counted as one byte of the record
MsgHeaderBytesTen == 5 + 1 + 4
\* bytes the builder counts for one record of the table
MsgHeaderBytes == 11
\* lastId and sciVersion the builder writes
MsgLastIdValue == 338
MsgSciVersionValue == 5010

\* current_text_offset before text i (1-based) is encoded
RECURSIVE CurrentTextOffset(_, _)
CurrentTextOffset(encoded_texts, i) ==
    IF i = 1 THEN 12 + (Len(encoded_texts) * MsgHeaderBytes)
    ELSE CurrentTextOffset(encoded_texts, i - 1) + Len(encoded_texts[i - 1]) + 1

\* message['text_offset'] = current_text_offset - 2
StoredTextOffset(encoded_texts, i) == CurrentTextOffset(encoded_texts, i) - 2

\* mutant of DataSize: the null terminators left out of text_size
DataSizeNoTerminators(encoded_texts) ==
    (2 + 2 + (Len(encoded_texts) * MsgHeaderBytes))
    + SumSeq([i \in 1..Len(encoded_texts) |-> Len(encoded_texts[i])])

\* data_size = header_size + text_size
DataSize(encoded_texts) ==
    (2 + 2 + (Len(encoded_texts) * MsgHeaderBytes))
    + SumSeq([i \in 1..Len(encoded_texts) |-> Len(encoded_texts[i]) + 1])

\* a write of the builder: struct.pack raises when the value does not fit
WriteU8(v) == [ok |-> FitsU8(v), bytes |-> <<v>>]
WriteU16(v) == [ok |-> FitsU16(v), bytes |-> PackU16(v)]
WriteBytes(b) == [ok |-> TRUE, bytes |-> b]

\* the bytes in the file after the writes ws, which stop at the first one that raises
RECURSIVE Written(_)
Written(ws) ==
    IF ws = <<>> \/ ~Head(ws).ok THEN <<>>
    ELSE Head(ws).bytes \o Written(Tail(ws))

\* the writes of one record of the table, in file order
MsgHeaderWrites(row, text_offset) ==
    <<WriteU8(row.noun.val), WriteU8(row.verb.val), WriteU8(row.case.val),
      WriteU8(row.sequence.val), WriteU8(row.talker.val), WriteU16(text_offset),
      WriteU8(row.ref_noun.val), WriteU8(row.ref_verb.val),
      WriteU8(row.ref_case.val), WriteU8(row.ref_sequence.val)>>

\* every write of create_msg_file, in file order
MsgWrites(rows, encoded_texts) ==
    <<WriteBytes(<<15>>), WriteBytes(<<0>>), WriteBytes(PackU32(MsgSciVersionValue)),
      WriteU16(DataSize(encoded_texts)), WriteU16(MsgLastIdValue), WriteU16(Len(rows))>>
    \o Flatten([i \in 1..Len(rows) |->
            MsgHeaderWrites(rows[i], StoredTextOffset(encoded_texts, i))])
    \o Flatten([i \in 1..Len(rows) |-> <<WriteBytes(encoded_texts[i]), WriteBytes(<<0>>)>>])

\* create_msg_file on a CSV file: the outcome and the bytes of the output file
create_msg_file(csv) ==
    IF ~csv.exists THEN Outcome("error", FALSE, <<>>)                  \* no input file
    ELSE IF \E i \in 1..Len(csv.rows) : ~RowIsNumeric(csv.rows[i])
    THEN Outcome("error", FALSE, <<>>)                                 \* ValueError of int()
    ELSE
      LET texts == [i \in 1..Len(csv.rows) |-> UniversalNewlines(csv.rows[i].text)]
      IN  IF \E i \in 1..Len(texts) : ~CanEncodeMsgText(texts[i])
          THEN Outcome("error", FALSE, <<>>)                           \* UnicodeEncodeError
          ELSE
            LET encoded_texts == [i \in 1..Len(texts) |-> EncodeMsgText(texts[i])]
                ws == MsgWrites(csv.rows, encoded_texts)
            IN  IF \A k \in 1..Len(ws) : ws[k].ok
                THEN Outcome("ok", TRUE, Written(ws))
                ELSE Outcome("error", TRUE, Written(ws))               \* struct.error

---------------------------------------------------------------------------
(* Message inputs: message binaries and CSV files *)

\* the nine one-byte fields of a record, in the order of ByteFields
FieldsPool == { <<1, 2, 3, 4, 5, 6, 7, 8, 9>>, <<255, 0, 17, 1, 99, 0, 0, 0, 0>> }

\* text bytes of a message binary: ASCII, and 0x80 (a Hebrew letter in CP862)
MsgTextBytesPool == { <<>>, <<65>>, <<66, 66>>, <<128>> }

\* texts of a CSV file: "", "A", "BB", Hebrew alef, Greek alpha
CsvTextPool == { <<>>, <<65>>, <<66, 66>>, <<1488>>, <<945>> }

\* text_offset cells of a CSV file: a number, or a cell left blank
CsvOffsetPool == { IntCell(0), BlankCell }

\* resource header, sciVersion and lastId of a message binary
MsgHeaderPool == { [res |-> <<15, 0>>, version |-> 5010, last_id |-> 338],
                   [res |-> <<143, 0>>, version |-> 0, last_id |-> 7] }

\* position of text i (1-based) when the texts follow the table in record order
RECURSIVE TextPosition(_, _)
TextPosition(texts, i) ==
    IF i = 1 THEN 12 + 11 * Len(texts)
    ELSE TextPosition(texts, i - 1) + Len(texts[i - 1]) + 1

\* the message binary layout: u8 resType | u8 headerSize | u32 sciVersion | u16 dataSize |
\* u16 lastId | u16 count | count x 11-byte record | null-terminated texts in record order
MsgLayout(hd, fields, texts) ==
    hd.res \o PackU32(hd.version)
    \o PackU16(4 + 11 * Len(texts) + SumSeq([i \in 1..Len(texts) |-> Len(texts[i]) + 1]))
    \o PackU16(hd.last_id) \o PackU16(Len(texts))
    \o Flatten([i \in 1..Len(texts) |->
            SubSeq(fields[i], 1, 5) \o PackU16(TextPosition(texts, i) - 2)
            \o SubSeq(fields[i], 6, 9)])
    \o Flatten([i \in 1..Len(texts) |-> texts[i] \o <<0>>])

ValidMsgFiles ==
    UNION { { MsgLayout(hd, fields, texts) :
                hd \in MsgHeaderPool, fields \in [1..n -> FieldsPool],
                texts \in [1..n -> MsgTextBytesPool] } : n \in 0..MaxMsgs }

\* message binaries that end early: a valid file without its last bytes
CutMsgFiles ==
    { SubSeq(f, 1, Len(f) - k) : f \in ValidMsgFiles, k \in 1..MaxCut }

\* a message binary of two records with the textOffset fields of the two exchanged:
\* the text of record 1 lies behind the text of record 2
SwapOffsets(f) ==
    [p \in 1..Len(f) |-> IF p \in {18, 19} THEN f[p + 11]
                         ELSE IF p \in {29, 30} THEN f[p - 11] ELSE f[p]]

\* message binaries whose texts do not lie in record order
ShuffledMsgFiles == { SwapOffsets(f) : f \in {g \in ValidMsgFiles : MsgCount(g) = 2} }

CsvRow(fields, offset, text) ==
    [noun |-> IntCell(fields[1]), verb |-> IntCell(fields[2]), case |-> IntCell(fields[3]),
     sequence |-> IntCell(fields[4]), talker |-> IntCell(fields[5]), text_offset |-> offset,
     ref_noun |-> IntCell(fields[6]), ref_verb |-> IntCell(fields[7]),
     ref_case |-> IntCell(fields[8]), ref_sequence |-> IntCell(fields[9]), text |-> text]

CsvRowPool ==
    { CsvRow(fields, offset, text) :
        fields \in FieldsPool, offset \in CsvOffsetPool, text \in CsvTextPool }

CsvFiles == { [exists |-> TRUE, rows |-> rows] : rows \in SeqsUpTo(CsvRowPool, MaxMsgs) }

\* rows with a cell that does not fit its one-byte field: noun 256, ref_sequence 300
WideRowPool ==
    { CsvRow(fields, IntCell(0), <<65>>) :
        fields \in { <<256, 2, 3, 4, 5, 6, 7, 8, 9>>, <<1, 2, 3, 4, 5, 6, 7, 8, 300>> } }

\* CSV files whose last row is such a row
WideCsvFiles ==
    { [exists |-> TRUE, rows |-> rows \o <<wide>>] :
        rows \in SeqsUpTo(CsvRowPool, MaxMsgs - 1), wide \in WideRowPool }

\* either a message binary to parse, or a CSV file to build from
MsgInit ==
    /\ msgOut = NoOutcome
    /\ msgs2 = NoMsgs
    /\ \/ /\ msgIn \in {FileOf(f) : f \in ValidMsgFiles \cup CutMsgFiles \cup ShuffledMsgFiles}
          /\ csvFile = NoCsv
          /\ mstep = "start"
       \/ /\ msgIn = NoFile
          /\ csvFile \in CsvFiles \cup WideCsvFiles
          /\ mstep = "parsed"
    /\ fontIn = NoFile /\ pngA = NoPngs /\ lineHeightArg = 0 /\ fontOut = NoOutcome
    /\ pngB = NoPngs /\ fstep = "idle"
    /\ texIn = NoFile /\ strsA = NoStrings /\ tsvFile = NoTsv /\ texOut = NoOutcome
    /\ strsB = NoStrings /\ tstep = "idle"
    /\ driver = "none" /\ dirIn = {} /\ mappingIn = <<>> /\ batchOut = NoBatch
    /\ bstep = "idle"
    /\ mapIn1 = <<>> /\ mapIn2 = <<>> /\ multilineArg = FALSE /\ appendArg = FALSE
    /\ mapOut = NoMapping /\ mapStep = "idle"
    /\ selTsv = <<>> /\ selDir = <<>> /\ selRan = {}
    /\ parCalls = <<>> /\ parState = <<>> /\ parFiles = <<>>

\* python parse_msg.py input_file output_dir
ParseMsg ==
    /\ mstep = "start"
    /\ LET parsed == parse_msg_file(msgIn.bytes)
       IN  /\ parsed.status = "ok"
           /\ csvFile' = export_to_csv(parsed.messages)
    /\ mstep' = "parsed"
    /\ UNCHANGED <<msgIn, msgOut, msgs2, fontVars, texVars, batchVars,
                   mapVars, selVars, parVars>>

\* python create_msg.py input_csv output_msg; main calls create_msg_file only when the
\* CSV exists
CreateMsg ==
    /\ mstep = "parsed"
    /\ csvFile.exists
    /\ msgOut' = create_msg_file(csvFile)
    /\ mstep' = "built"
    /\ UNCHANGED <<msgIn, csvFile, msgs2, fontVars, texVars, batchVars,
                   mapVars, selVars, parVars>>

\* parse_msg_file on the file that create_msg_file wrote (verify_msg_file)
ReparseMsg ==
    /\ mstep = "built"
    /\ msgOut.status = "ok"
    /\ msgs2' = parse_msg_file(msgOut.bytes)
    /\ mstep' = "reparsed"
    /\ UNCHANGED <<msgIn, csvFile, msgOut, fontVars, texVars, batchVars,
                   mapVars, selVars, parVars>>

MsgNext == ParseMsg \/ CreateMsg \/ ReparseMsg

---------------------------------------------------------------------------
(* String resource codec: tex2tsv.py and tsv2tex.py.                       *)
(* A TSV file is held as its text, a sequence of code points.              *)

\* bytes.split(b'\x00'): the chunks between null bytes, one more than there are nulls
RECURSIVE SplitOn(_, _)
SplitOn(data, sep) ==
    IF \A i \in 1..Len(data) : data[i] # sep THEN <<data>>
    ELSE LET k == CHOOSE i \in 1..Len(data) :
                    data[i] = sep /\ \A j \in 1..(i - 1) : data[j] # sep
         IN  <<SubSeq(data, 1, k - 1)>> \o SplitOn(SubSeq(data, k + 1, Len(data)), sep)

\* the decode of one string in read_tex_strings: "" when the bytes cannot be decoded
DecodeTexString(raw_str) ==
    IF CanDecode1255(raw_str) THEN DecodeCP1255(raw_str) ELSE <<>>

\* mutant of read_tex_strings: a string that cannot be decoded is left out
read_tex_strings_skip_undecodable(f) ==
    LET data == SubSeq(f, 3, Len(f))
        raw_strings == SplitOn(data, 0)
        decodable == SelectSeq(SubSeq(raw_strings, 1, Len(raw_strings) - 1), CanDecode1255)
    IN  [i \in 1..Len(decodable) |-> DecodeCP1255(decodable[i])]

\* mutant of read_tex_strings: the chunk after the last null is kept
read_tex_strings_keep_last(f) ==
    LET data == SubSeq(f, 3, Len(f))
        raw_strings == SplitOn(data, 0)
    IN  [i \in 1..Len(raw_strings) |-> DecodeTexString(raw_strings[i])]

\* read_tex_strings on the bytes f of a text resource: the header is skipped, the rest
\* is split on null bytes and the chunk after the last null is dropped
read_tex_strings(f) ==
    LET data == SubSeq(f, 3, Len(f))
        raw_strings == SplitOn(data, 0)
    IN  [i \in 1..(Len(raw_strings) - 1) |-> DecodeTexString(raw_strings[i])]

\* the magic header test of read_tex_strings, which only warns
HeaderWarning(f) == ReadAt(f, 0, 2) # <<131, 0>>

\* str(i): the decimal digits of an index
RECURSIVE Decimal(_)
Decimal(i) == IF i < 10 THEN <<48 + i>> ELSE Decimal(i \div 10) \o <<48 + (i % 10)>>

\* "Index\tNoun\tSelector\tVerb\tText\tOriginal\n"
TsvHeaderLine ==
    <<73, 110, 100, 101, 120, 9, 78, 111, 117, 110, 9, 83, 101, 108, 101, 99, 116, 111, 114, 9,
      86, 101, 114, 98, 9, 84, 101, 120, 116, 9, 79, 114, 105, 103, 105, 110, 97, 108, 10>>

\* f"{i}\t\t\t\t{text}\t\n"
TsvLine(i, text) == Decimal(i) \o <<9, 9, 9, 9>> \o text \o <<9, 10>>

\* convert_tex_to_tsv: the text of the TSV file written for the strings texts
convert_tex_to_tsv(texts) ==
    [exists |-> TRUE,
     text |-> TsvHeaderLine \o Flatten([i \in 1..Len(texts) |-> TsvLine(i - 1, texts[i])])]

\* the lines "for line in infile" yields, each stripped of "\n" and "\r": the file is read
\* with universal newlines, so "\r\n" and "\r" end a line as "\n" does, and the text
\* after the last line end is a line only if it is not empty
LinesOf(text) ==
    LET chunks == SplitOn(UniversalNewlines(text), 10)
    IN  IF chunks[Len(chunks)] = <<>> THEN SubSeq(chunks, 1, Len(chunks) - 1) ELSE chunks

\* code points of the Windows-1255 repertoire for which str.isnumeric() holds
NumericChars == (48..57) \cup {178, 179, 185, 188, 189, 190}
IsNumeric(s) == s # <<>> /\ \A i \in 1..Len(s) : s[i] \in NumericChars

\* what one line makes convert_tsv_to_tex write: nothing for a line whose first field is
\* not numeric, else the selected field (or "") encoded, and a null
TexLineWrites(line, field) ==
    LET fields == SplitOn(line, 9)
        text == IF Len(fields) >= field + 1 THEN fields[field + 1] ELSE <<>>
    IN  IF ~IsNumeric(fields[1]) THEN <<>>
        ELSE <<[ok |-> CanEncode1255(text),
                bytes |-> IF CanEncode1255(text) THEN EncodeCP1255(text) ELSE <<>>],
               WriteBytes(<<0>>)>>

\* convert_tsv_to_tex: the output file is opened and the header written before the TSV
\* is opened; an error ends the run and leaves what was written
convert_tsv_to_tex(tsv, field) ==
    IF ~tsv.exists THEN Outcome("error", TRUE, <<131, 0>>)
    ELSE
      LET lines == LinesOf(tsv.text)
          ws == <<WriteBytes(<<131, 0>>)>>
                \o Flatten([i \in 1..Len(lines) |-> TexLineWrites(lines[i], field)])
      IN  IF \A k \in 1..Len(ws) : ws[k].ok
          THEN Outcome("ok", TRUE, Written(ws))
          ELSE Outcome("error", TRUE, Written(ws))

---------------------------------------------------------------------------
(* String resource inputs *)

\* bytes of a text resource: null, "A", tab, line feed, and 0x81 (undefined in Windows-1255)
TexBytePool == {0, 65, 9, 10, 129}

\* the magic header, and a header that is not the magic
TexHeaderPool == { <<131, 0>>, <<65, 66>> }

TexFiles ==
    { hd \o body : hd \in TexHeaderPool, body \in SeqsUpTo(TexBytePool, MaxTexLen) }
    \cup { <<>>, <<131>>, <<131, 0, 65, 66, 0, 67, 0>> }

\* texts of the Text column of an edited TSV file: "A", Hebrew alef, Greek alpha, ""
TsvTextPool == { <<65>>, <<1488>>, <<945>>, <<>> }

\* TSV files as a translator hands them to tsv2tex: the header line and one numbered
\* line per text
TsvFiles == { convert_tex_to_tsv(texts) : texts \in SeqsUpTo(TsvTextPool, MaxTsvLines) }

\* lines of a TSV file edited by hand: a full line, a bare index, a line of three
\* columns, a line whose first field is not a number, a line with a Greek text
TsvLinePool ==
    { TsvLine(0, <<65>>), <<49, 10>>, <<50, 9, 110, 9, 115, 10>>,
      <<120, 9, 9, 9, 9, 66, 9, 10>>, TsvLine(3, <<945>>) }

\* TSV files made of the header line and such lines
EditedTsvFiles ==
    { [exists |-> TRUE, text |-> TsvHeaderLine \o Flatten(lines)] :
        lines \in SeqsUpTo(TsvLinePool, MaxTsvLines) }

\* either a text resource to convert, or a TSV file to build from
TexInit ==
    /\ strsA = NoStrings /\ texOut = NoOutcome /\ strsB = NoStrings
    /\ \/ /\ texIn \in {FileOf(f) : f \in TexFiles}
          /\ tsvFile = NoTsv
          /\ tstep = "start"
       \/ /\ texIn = NoFile
          /\ tsvFile \in TsvFiles \cup EditedTsvFiles
          /\ tstep = "parsed"
    /\ fontIn = NoFile /\ pngA = NoPngs /\ lineHeightArg = 0 /\ fontOut = NoOutcome
    /\ pngB = NoPngs /\ fstep = "idle"
    /\ msgIn = NoFile /\ csvFile = NoCsv /\ msgOut = NoOutcome /\ msgs2 = NoMsgs
    /\ mstep = "idle"
    /\ driver = "none" /\ dirIn = {} /\ mappingIn = <<>> /\ batchOut = NoBatch
    /\ bstep = "idle"
    /\ mapIn1 = <<>> /\ mapIn2 = <<>> /\ multilineArg = FALSE /\ appendArg = FALSE
    /\ mapOut = NoMapping /\ mapStep = "idle"
    /\ selTsv = <<>> /\ selDir = <<>> /\ selRan = {}
    /\ parCalls = <<>> /\ parState = <<>> /\ parFiles = <<>>

\* python tex2tsv.py file.tex output_dir
Tex2Tsv ==
    /\ tstep = "start"
    /\ strsA' = [status |-> "ok", strings |-> read_tex_strings(texIn.bytes)]
    /\ tsvFile' = convert_tex_to_tsv(read_tex_strings(texIn.bytes))
    /\ tstep' = "parsed"
    /\ UNCHANGED <<texIn, texOut, strsB, fontVars, msgVars, batchVars,
                   mapVars, selVars, parVars>>

\* python tsv2tex.py module.tsv output_dir: the text file, from field 4
Tsv2Tex ==
    /\ tstep = "parsed"
    /\ texOut' = convert_tsv_to_tex(tsvFile, 4)
    /\ tstep' = "built"
    /\ UNCHANGED <<texIn, strsA, tsvFile, strsB, fontVars, msgVars, batchVars,
                   mapVars, selVars, parVars>>

\* read_tex_strings on the file that convert_tsv_to_tex wrote
RereadTex ==
    /\ tstep = "built"
    /\ texOut.status = "ok"
    /\ strsB' = [status |-> "ok", strings |-> read_tex_strings(texOut.bytes)]
    /\ tstep' = "reparsed"
    /\ UNCHANGED <<texIn, strsA, tsvFile, texOut, fontVars, msgVars, batchVars,
                   mapVars, selVars, parVars>>

TexNext == Tex2Tsv \/ Tsv2Tex \/ RereadTex

---------------------------------------------------------------------------
(* Whole-directory runs: translate_texts.py, tex2tsv.py in directory mode   *)
(* and parse_sci1.1_messages.py.  A directory listing is a set of files     *)
(* [name, readable, bytes] with different names; a file that is not        *)
(* readable cannot be opened (no permission, or a directory of that name).  *)

\* code points for which str.isspace() holds: what strip() and split() take as white space
Whitespace ==
    {9, 10, 11, 12, 13, 28, 29, 30, 31, 32, 133, 160, 5760} \cup (8192..8202)
    \cup {8232, 8233, 8239, 8287, 12288}

\* str.strip()
RECURSIVE LStrip(_)
LStrip(s) == IF s # <<>> /\ Head(s) \in Whitespace THEN LStrip(Tail(s)) ELSE s
RECURSIVE RStrip(_)
RStrip(s) ==
    IF s # <<>> /\ s[Len(s)] \in Whitespace THEN RStrip(SubSeq(s, 1, Len(s) - 1)) ELSE s
Strip(s) == RStrip(LStrip(s))

\* pat occurs in s at position p (1-based)
MatchAt(s, pat, p) == p + Len(pat) - 1 <= Len(s) /\ SubSeq(s, p, p + Len(pat) - 1) = pat

\* str.replace(old, new), old not empty
RECURSIVE Replace(_, _, _)
Replace(s, old, new) ==
    IF s = <<>> THEN <<>>
    ELSE IF MatchAt(s, old, 1)
         THEN new \o Replace(SubSeq(s, Len(old) + 1, Len(s)), old, new)
         ELSE <<Head(s)>> \o Replace(Tail(s), old, new)

\* ' '.join(s.split()): runs of white space become one space, none at the ends
RECURSIVE JoinSplit(_)
JoinSplit(s) ==
    LET t == LStrip(s)
    IN  IF t = <<>> THEN <<>>
        ELSE LET k == CHOOSE n \in 1..Len(t) :
                        /\ \A j \in 1..n : t[j] \notin Whitespace
                        /\ n = Len(t) \/ t[n + 1] \in Whitespace
                 rest == JoinSplit(SubSeq(t, k + 1, Len(t)))
             IN  IF rest = <<>> THEN SubSeq(t, 1, k) ELSE SubSeq(t, 1, k) \o <<32>> \o rest

\* "===", "\n" and the two characters "\\n"
MappingSeparator == <<61, 61, 61>>
Newline == <<10>>
LiteralNewline == <<92, 110>>

\* the mapping after one line of the mapping file
MappingWithLine(mapping, line) ==
    IF \A p \in 1..Len(line) : ~MatchAt(line, MappingSeparator, p) THEN mapping
    ELSE
      LET p == CHOOSE q \in 1..Len(line) :
                    /\ MatchAt(line, MappingSeparator, q)
                    /\ \A r \in 1..(q - 1) : ~MatchAt(line, MappingSeparator, r)
          english == Strip(SubSeq(line, 1, p - 1))
          hebrew == Strip(SubSeq(line, p + Len(MappingSeparator), Len(line)))
      IN  IF english = <<>> \/ hebrew = <<>> THEN mapping
          ELSE [k \in (DOMAIN mapping) \cup {english} |->
                    IF k = english THEN hebrew ELSE mapping[k]]

RECURSIVE MappingOfLines(_, _)
MappingOfLines(lines, mapping) ==
    IF lines = <<>> THEN mapping
    ELSE MappingOfLines(Tail(lines), MappingWithLine(mapping, Head(lines)))

\* load_mapping: the dictionary english -> hebrew of the mapping file
load_mapping(text) == MappingOfLines(LinesOf(text), [k \in {} |-> <<>>])

\* the five matching strategies of apply_translations; the message itself when none matches
Translated(message, mapping) ==
    LET keys == DOMAIN mapping
        message_with_literal_newlines == Replace(message, Newline, LiteralNewline)
        normalized == JoinSplit(message)
    IN  IF message \in keys THEN mapping[message]
        ELSE IF message_with_literal_newlines \in keys
        THEN Replace(mapping[message_with_literal_newlines], LiteralNewline, Newline)
        ELSE IF Strip(message) \in keys THEN mapping[Strip(message)]
        ELSE IF Strip(message_with_literal_newlines) \in keys
        THEN Replace(mapping[Strip(message_with_literal_newlines)], LiteralNewline, Newline)
        ELSE IF normalized \in keys THEN mapping[normalized]
        ELSE message

\* loop_strings: the strings before each null byte, decoded as Windows-1252; the bytes
\* after the last null are dropped (EOFError); a byte Windows-1252 does not define
\* raises UnicodeDecodeError
loop_strings(f) ==
    LET chunks == SplitOn(f, 0)
        raw == SubSeq(chunks, 1, Len(chunks) - 1)
    IN  IF \A i \in 1..Len(raw) : CanDecode1252(raw[i])
        THEN [status |-> "ok", strings |-> [i \in 1..Len(raw) |-> DecodeCP1252(raw[i])]]
        ELSE [status |-> "error", strings |-> <<>>]

\* the messages apply_translations keeps of the strings of a file: the first is left
\* out when it is the Sierra header byte
MessagesOf(strings) ==
    IF strings # <<>> /\ EncodeCP1252(strings[1]) = <<131>> THEN Tail(strings) ELSE strings

\* the writes of apply_translations for one file: the header, then each message
\* translated, encoded as Windows-1255, and a null
TranslationWrites(messages, mapping) ==
    <<WriteBytes(<<131>>), WriteBytes(<<0>>)>>
    \o Flatten([i \in 1..Len(messages) |->
            LET translated == Translated(messages[i], mapping)
            IN  <<[ok |-> CanEncode1255(translated),
                   bytes |-> IF CanEncode1255(translated) THEN EncodeCP1255(translated)
                             ELSE <<>>],
                  WriteBytes(<<0>>)>>])

\* the body of the file loop of apply_translations for one file: the outcome and the
\* output file
translate_file(file, mapping) ==
    IF ~file.readable THEN Outcome("error", FALSE, <<>>)            \* open() raises
    ELSE
      LET read == loop_strings(file.bytes)
      IN  IF read.status # "ok" THEN Outcome("error", FALSE, <<>>)  \* UnicodeDecodeError
          ELSE
            LET ws == TranslationWrites(MessagesOf(read.strings), mapping)
            IN  IF \A k \in 1..Len(ws) : ws[k].ok
                THEN Outcome("ok", TRUE, Written(ws))
                ELSE Outcome("error", TRUE, Written(ws))            \* UnicodeEncodeError

\* order of str and Path in sorted(): by code point, a proper prefix first
LexLess(a, b) ==
    \E k \in 0..Min(Len(a), Len(b)) :
        /\ \A j \in 1..k : a[j] = b[j]
        /\ \/ k = Len(a) /\ k < Len(b)
           \/ k < Len(a) /\ k < Len(b) /\ a[k + 1] < b[k + 1]

\* sorted(...): the files of a listing in the order of their names
RECURSIVE SortedFiles(_)
SortedFiles(files) ==
    IF files = {} THEN <<>>
    ELSE LET first == CHOOSE x \in files : \A y \in files \ {x} : LexLess(x.name, y.name)
         IN  <<first>> \o SortedFiles(files \ {first})

FileResult(file, outcome) == [name |-> file.name, result |-> outcome.status, out |-> outcome]

\* the file loop of apply_translations: an exception in one file ends the loop and
\* the run (main prints the error and returns 1)
RECURSIVE TranslateLoop(_, _, _)
TranslateLoop(files, mapping, results) ==
    IF files = <<>> THEN [status |-> "completed", results |-> results]
    ELSE LET outcome == translate_file(Head(files), mapping)
             now == Append(results, FileResult(Head(files), outcome))
         IN  IF outcome.status # "ok" THEN [status |-> "aborted", results |-> now]
             ELSE TranslateLoop(Tail(files), mapping, now)

\* apply_translations on the files of input_dir that match text.* or *.tex
apply_translations(files, mapping_text) ==
    TranslateLoop(SortedFiles(files), load_mapping(mapping_text), <<>>)

\* int() of a string of the digits 0-9
RECURSIVE IntOf(_)
IntOf(s) == IF s = <<>> THEN 0 ELSE 10 * IntOf(SubSeq(s, 1, Len(s) - 1)) + (s[Len(s)] - 48)

\* f"{int(module) - 1}": the module name before a numeric module name
PrevModule(module) ==
    IF IntOf(module) = 0 THEN <<45, 49>> ELSE Decimal(IntOf(module) - 1)

\* the .tex files of a listing that directory mode takes as text files: X.tex is left
\* out as a selector file when X is numeric and (X-1).tex is in the listing
TextFiles(files) ==
    { x \in files : ~(IsNumeric(x.name) /\ \E y \in files : y.name = PrevModule(x.name)) }

\* convert_tex_to_tsv on one file of the listing: read_tex_strings ends the process
\* with sys.exit(1) when the file cannot be opened
tex_file_to_tsv(file) ==
    IF ~file.readable THEN [status |-> "exit", exists |-> FALSE, text |-> <<>>]
    ELSE LET tsv == convert_tex_to_tsv(read_tex_strings(file.bytes))
         IN  [status |-> "ok", exists |-> TRUE, text |-> tsv.text]

\* the file loop of directory mode: "except Exception" does not catch SystemExit,
\* so sys.exit(1) in one conversion ends the run
RECURSIVE Tex2TsvLoop(_, _)
Tex2TsvLoop(files, results) ==
    IF files = <<>> THEN [status |-> "completed", results |-> results]
    ELSE LET outcome == tex_file_to_tsv(Head(files))
             now == Append(results, FileResult(Head(files), outcome))
         IN  IF outcome.status = "exit" THEN [status |-> "aborted", results |-> now]
             ELSE Tex2TsvLoop(Tail(files), now)

\* int(module) raises ValueError for a module name that str.isnumeric() accepts and
\* that is not made of the digits 0-9
IntRaises(module) == IsNumeric(module) /\ \E i \in 1..Len(module) : module[i] \notin 48..57

\* tex2tsv.py on a directory: the .tex files of the listing; a ValueError in the
\* selector filter is not caught and ends the run before any conversion
tex2tsv_directory(files) ==
    IF \E x \in files : IntRaises(x.name) THEN [status |-> "aborted", results |-> <<>>]
    ELSE Tex2TsvLoop(SortedFiles(TextFiles(files)), <<>>)

\* process_messages.py on a CSV: int() of the noun, verb, case and sequence cells
process_messages(csv) ==
    IF \A i \in 1..Len(csv.rows) :
            /\ csv.rows[i].noun.num /\ csv.rows[i].verb.num
            /\ csv.rows[i].case.num /\ csv.rows[i].sequence.num
    THEN "ok" ELSE "error"

\* the body of the file loop of parse_all_msg_files: parse_msg.py, then, when
\* <name>_messages.csv exists in the output directory (written by parse_msg.py, or
\* left there when parse_msg.py exports nothing), process_messages.py and the count of
\* the lines of the English and Hebrew text files, which are read as UTF-8; a
\* non-zero exit status and an exception of the count are failures
parse_one_msg_file(file) ==
    IF ~file.readable THEN [status |-> "failed", exists |-> FALSE, rows |-> <<>>]
    ELSE LET parsed == parse_msg_file(file.bytes)
             exported == export_to_csv(parsed.messages)
             csv == IF exported.exists THEN exported ELSE file.stale
         IN  IF parsed.status # "ok" THEN [status |-> "failed", exists |-> FALSE, rows |-> <<>>]
             ELSE IF csv.exists /\ process_messages(csv) # "ok"
             THEN [status |-> "failed", exists |-> TRUE, rows |-> csv.rows]
             ELSE IF csv.exists /\ ~file.hebrew_utf8         \* UnicodeDecodeError
             THEN [status |-> "failed", exists |-> TRUE, rows |-> csv.rows]
             ELSE [status |-> "processed", exists |-> csv.exists, rows |-> csv.rows]

\* the file loop of parse_all_msg_files: a failure is caught and counted and the loop
\* goes on
RECURSIVE ParseAllLoop(_, _, _, _)
ParseAllLoop(files, results, processed, failed) ==
    IF files = <<>>
    THEN [status |-> "completed", results |-> results,
          processed |-> processed, failed |-> failed]
    ELSE LET outcome == parse_one_msg_file(Head(files))
             now == Append(results, FileResult(Head(files), outcome))
         IN  IF outcome.status = "processed"
             THEN ParseAllLoop(Tail(files), now, processed + 1, failed)
             ELSE ParseAllLoop(Tail(files), now, processed, failed + 1)

\* parse_all_msg_files: every .msg file of the listing in sorted order
parse_all_msg_files(files) == ParseAllLoop(SortedFiles(files), <<>>, 0, 0)

---------------------------------------------------------------------------
(* Inputs of the whole-directory runs *)

\* most files of a directory listing
MaxFiles == 2

\* file names without their extension: "1", "2", "a" and superscript two
NamePool == { <<49>>, <<50>>, <<97>>, <<178>> }

\* text resources of a directory: "A"; a byte neither codepage defines; 0xE9, a letter in
\* both codepages but not the same one; no magic header; no null after the last string
TexContentPool ==
    { <<131, 0, 65, 0>>, <<131, 0, 129, 0>>, <<131, 0, 233, 0>>, <<65, 66, 0, 67, 0>>,
      <<131, 0, 65, 0, 66>> }

\* message binaries of a directory: one record with text "A", no record, and a file
\* that ends inside its header
MsgContentPool ==
    { MsgLayout([res |-> <<15, 0>>, version |-> 5010, last_id |-> 338],
                <<<<1, 2, 3, 4, 5, 6, 7, 8, 9>>>>, <<<<65>>>>),
      MsgLayout([res |-> <<15, 0>>, version |-> 5010, last_id |-> 338], <<>>, <<>>),
      <<15, 0, 146, 19>> }

\* mapping files: empty, "A===<alef>", "A===<alpha>" and a line without "==="
MappingFilePool ==
    { <<>>, <<65, 61, 61, 61, 1488, 10>>, <<65, 61, 61, 61, 945, 10>>, <<65, 10>> }

\* the listings of at most MaxFiles files with contents of the pool, or not readable
Listings(contents) ==
    LET entries == { [readable |-> TRUE, bytes |-> c] : c \in contents }
                   \cup { [readable |-> FALSE, bytes |-> <<>>] }
    IN  UNION { { { [name |-> n, readable |-> sel[n].readable, bytes |-> sel[n].bytes] :
                        n \in S } : sel \in [S -> entries] } :
                S \in { T \in SUBSET NamePool : Cardinality(T) <= MaxFiles } }

\* what the output directory holds for a name before the run: nothing; a file
\* <name>_messages.csv whose noun cell is blank; a file <name>_messages_hebrew.txt
\* saved as Windows-1255 and not valid as UTF-8
OutputDirPool ==
    { [stale |-> NoCsv, hebrew_utf8 |-> TRUE],
      [stale |-> [exists |-> TRUE,
                  rows |-> <<[CsvRow(<<1, 2, 3, 4, 5, 6, 7, 8, 9>>, IntCell(0), <<65>>)
                                    EXCEPT !.noun = BlankCell]>>],
       hebrew_utf8 |-> TRUE],
      [stale |-> NoCsv, hebrew_utf8 |-> FALSE] }

\* the listings of .msg files, each with what the output directory holds for it
MsgListings ==
    UNION { { { [name |-> x.name, readable |-> x.readable, bytes |-> x.bytes,
                 stale |-> held[x.name].stale, hebrew_utf8 |-> held[x.name].hebrew_utf8] :
                    x \in listing } :
                held \in [{x.name : x \in listing} -> OutputDirPool] } :
            listing \in Listings(MsgContentPool) }

BatchInit ==
    /\ \/ /\ driver = "apply_translations"
          /\ dirIn \in Listings(TexContentPool)
          /\ mappingIn \in MappingFilePool
       \/ /\ driver = "tex2tsv"
          /\ dirIn \in Listings(TexContentPool)
          /\ mappingIn = <<>>
       \/ /\ driver = "parse_all_msg_files"
          /\ dirIn \in MsgListings
          /\ mappingIn = <<>>
    /\ batchOut = NoBatch
    /\ bstep = "start"
    /\ fontIn = NoFile /\ pngA = NoPngs /\ lineHeightArg = 0 /\ fontOut = NoOutcome
    /\ pngB = NoPngs /\ fstep = "idle"
    /\ msgIn = NoFile /\ csvFile = NoCsv /\ msgOut = NoOutcome /\ msgs2 = NoMsgs
    /\ mstep = "idle"
    /\ texIn = NoFile /\ strsA = NoStrings /\ tsvFile = NoTsv /\ texOut = NoOutcome
    /\ strsB = NoStrings /\ tstep = "idle"
    /\ mapIn1 = <<>> /\ mapIn2 = <<>> /\ multilineArg = FALSE /\ appendArg = FALSE
    /\ mapOut = NoMapping /\ mapStep = "idle"
    /\ selTsv = <<>> /\ selDir = <<>> /\ selRan = {}
    /\ parCalls = <<>> /\ parState = <<>> /\ parFiles = <<>>

\* python translate_texts.py input_dir output_dir mapping_file
ApplyTranslations ==
    /\ bstep = "start" /\ driver = "apply_translations"
    /\ batchOut' = apply_translations(dirIn, mappingIn)
    /\ bstep' = "done"
    /\ UNCHANGED <<driver, dirIn, mappingIn, fontVars, msgVars, texVars,
                   mapVars, selVars, parVars>>

\* python tex2tsv.py tex_dir output_dir
Tex2TsvDirectory ==
    /\ bstep = "start" /\ driver = "tex2tsv"
    /\ batchOut' = tex2tsv_directory(dirIn)
    /\ bstep' = "done"
    /\ UNCHANGED <<driver, dirIn, mappingIn, fontVars, msgVars, texVars,
                   mapVars, selVars, parVars>>

\* python parse_sci1.1_messages.py input_dir output_dir
ParseAllMsgFiles ==
    /\ bstep = "start" /\ driver = "parse_all_msg_files"
    /\ batchOut' = parse_all_msg_files(dirIn)
    /\ bstep' = "done"
    /\ UNCHANGED <<driver, dirIn, mappingIn, fontVars, msgVars, texVars,
                   mapVars, selVars, parVars>>

BatchNext == ApplyTranslations \/ Tex2TsvDirectory \/ ParseAllMsgFiles

---------------------------------------------------------------------------
(* map_files.py: the mapping file of two text files, line by line or, in    *)
(* multiline mode, message by message.  The two inputs are texts (the files *)
(* are read as UTF-8), the mapping file is the text written to it.          *)

\* the greatest number of lines of an input file of map_files
MaxMapLines == 3

\* '=====', the line that ends a message in multiline mode
MessageSeparator == <<61, 61, 61, 61, 61>>
\* '###IGNORE###'
IgnoreMark == <<35, 35, 35, 73, 71, 78, 79, 82, 69, 35, 35, 35>>
\* ' === ', written between the two entries of a pair
PairSeparator == <<32, 61, 61, 61, 32>>

\* sep.join(parts)
RECURSIVE JoinWith(_, _)
JoinWith(parts, sep) ==
    IF parts = <<>> THEN <<>>
    ELSE IF Len(parts) = 1 THEN parts[1]
    ELSE parts[1] \o sep \o JoinWith(Tail(parts), sep)

\* the loop of split_messages: a separator line ends the current message, which is kept
\* if it has a line; every other line joins the current message
RECURSIVE SplitMessagesLoop(_, _, _)
SplitMessagesLoop(lines, current_message, messages) ==
    IF lines = <<>>
    THEN IF current_message # <<>>
         THEN Append(messages, JoinWith(current_message, LiteralNewline))
         ELSE messages
    ELSE IF Strip(Head(lines)) = MessageSeparator
         THEN IF current_message # <<>>
              THEN SplitMessagesLoop(Tail(lines), <<>>,
                       Append(messages, JoinWith(current_message, LiteralNewline)))
              ELSE SplitMessagesLoop(Tail(lines), <<>>, messages)
         ELSE SplitMessagesLoop(Tail(lines), Append(current_message, Head(lines)), messages)

\* split_messages: the messages of the lines of a file
split_messages(lines) == SplitMessagesLoop(lines, <<>>, <<>>)

\* mutant of MessagePairWrite: a message pair is written whatever the second message
\* starts with
MessagePairWriteKeepIgnored(msg1, msg2) ==
    msg1 \o PairSeparator \o msg2 \o Newline

\* what one position of the multiline loop writes: nothing when the second message starts
\* with the ignore mark, else the pair
MessagePairWrite(msg1, msg2) ==
    IF MatchAt(msg2, IgnoreMark, 1) THEN <<>>
    ELSE msg1 \o PairSeparator \o msg2 \o Newline

\* what one position of the line loop writes: nothing when the second line starts with
\* the ignore mark, an empty line when both lines are blank, else the pair, a blank line
\* taken as the empty one
LinePairWrite(line1, line2) ==
    IF MatchAt(line2, IgnoreMark, 1) THEN <<>>
    ELSE IF Strip(line1) = <<>> /\ Strip(line2) = <<>> THEN Newline
    ELSE (IF Strip(line1) = <<>> THEN <<>> ELSE line1) \o PairSeparator
         \o (IF Strip(line2) = <<>> THEN <<>> ELSE line2) \o Newline

\* the entries map_files counts and pairs: the lines, or the messages in multiline mode
MapEntries(text, multiline) ==
    IF multiline THEN split_messages(LinesOf(text)) ELSE LinesOf(text)

\* map_files: a warning when the two counts differ, then one write per position up to
\* the smaller count, to the end of the mapping file (append) or to an empty one
map_files(text1, text2, multiline, append, previous) ==
    LET entries1 == MapEntries(text1, multiline)
        entries2 == MapEntries(text2, multiline)
        min_count == Min(Len(entries1), Len(entries2))
        written == Flatten([i \in 1..min_count |->
                       IF multiline THEN MessagePairWrite(entries1[i], entries2[i])
                       ELSE LinePairWrite(entries1[i], entries2[i])])
    IN  [status |-> "ok",
         warned |-> Len(entries1) # Len(entries2),
         text |-> (IF append THEN previous ELSE <<>>) \o written]

\* the lines the first (English) and the second (Hebrew) input are made of
MapLinePool1 == { <<65>>, <<32>>, MessageSeparator }
MapLinePool2 == { <<1488>>, <<>>, IgnoreMark \o <<1489>>, MessageSeparator }
MapText(lines) == Flatten([i \in 1..Len(lines) |-> lines[i] \o Newline])
MapTexts1 == { MapText(ls) : ls \in SeqsUpTo(MapLinePool1, MaxMapLines) }
MapTexts2 == { MapText(ls) : ls \in SeqsUpTo(MapLinePool2, MaxMapLines) }

\* the mapping file that is there before the run
PreviousMapping == <<88, 32, 61, 61, 61, 32, 1497>> \o Newline

MapInit ==
    /\ fontIn = NoFile /\ pngA = NoPngs /\ lineHeightArg = 0 /\ fontOut = NoOutcome
    /\ pngB = NoPngs /\ fstep = "idle"
    /\ msgIn = NoFile /\ csvFile = NoCsv /\ msgOut = NoOutcome /\ msgs2 = NoMsgs
    /\ mstep = "idle"
    /\ texIn = NoFile /\ strsA = NoStrings /\ tsvFile = NoTsv /\ texOut = NoOutcome
    /\ strsB = NoStrings /\ tstep = "idle"
    /\ driver = "none" /\ dirIn = {} /\ mappingIn = <<>> /\ batchOut = NoBatch
    /\ bstep = "idle"
    /\ mapIn1 \in MapTexts1
    /\ mapIn2 \in MapTexts2
    /\ multilineArg \in BOOLEAN
    /\ appendArg \in BOOLEAN
    /\ mapOut = NoMapping
    /\ mapStep = "start"
    /\ selTsv = <<>> /\ selDir = <<>> /\ selRan = {}
    /\ parCalls = <<>> /\ parState = <<>> /\ parFiles = <<>>

\* python map_files.py input1 input2 output [--multiline] [--append]
MapFiles ==
    /\ mapStep = "start"
    /\ mapOut' = map_files(mapIn1, mapIn2, multilineArg, appendArg, PreviousMapping)
    /\ mapStep' = "mapped"
    /\ UNCHANGED <<mapIn1, mapIn2, multilineArg, appendArg>>
    /\ UNCHANGED <<fontVars, msgVars, texVars, batchVars, selVars, parVars>>

MapNext == MapFiles

---------------------------------------------------------------------------
(* tsv2tex.py run for the modules of a set, one run per module, into one    *)
(* output directory.  The directory is a function from module numbers to    *)
(* the bytes of <module>.tex; one run writes the text file of its module    *)
(* and then the selector file, named after the next module.                 *)

\* the modules a set is made of: two neighbours and one apart
SelModulePool == {5, 6, 8}

\* f"{i}\t{noun}\t{selector}\t{verb}\t{text}\t\n"
TsvFullLine(i, noun, selector, verb, text) ==
    Decimal(i) \o <<9>> \o noun \o <<9>> \o selector \o <<9>> \o verb \o <<9>> \o text
    \o <<9, 10>>

\* the TSV files of the modules: one line with a selector, two lines without selectors,
\* one line whose text has a Greek letter
SelTsvPool ==
    { [exists |-> TRUE, text |-> TsvHeaderLine \o TsvFullLine(0, <<110>>, <<115>>, <<118>>, <<65>>)],
      [exists |-> TRUE, text |-> TsvHeaderLine \o TsvLine(0, <<1488>>) \o TsvLine(1, <<66>>)],
      [exists |-> TRUE, text |-> TsvHeaderLine \o TsvFullLine(0, <<110>>, <<115>>, <<118>>, <<945>>)] }

\* the directory after a file is written: the file is created or replaced
WithFile(dir, module, bytes) ==
    [m \in DOMAIN dir \cup {module} |-> IF m = module THEN bytes ELSE dir[m]]

\* one run of tsv2tex.py for <module>.tsv: field 4 into <module>.tex and, unless that
\* conversion ended the run, field 2 into <module + 1>.tex
tsv2tex(dir, module, tsv) ==
    LET text_file == convert_tsv_to_tex(tsv, 4)
        selector_file == convert_tsv_to_tex(tsv, 2)
        with_text == WithFile(dir, module, text_file.bytes)
    IN  IF text_file.status = "ok"
        THEN WithFile(with_text, module + 1, selector_file.bytes)
        ELSE with_text

SelInit ==
    /\ fontIn = NoFile /\ pngA = NoPngs /\ lineHeightArg = 0 /\ fontOut = NoOutcome
    /\ pngB = NoPngs /\ fstep = "idle"
    /\ msgIn = NoFile /\ csvFile = NoCsv /\ msgOut = NoOutcome /\ msgs2 = NoMsgs
    /\ mstep = "idle"
    /\ texIn = NoFile /\ strsA = NoStrings /\ tsvFile = NoTsv /\ texOut = NoOutcome
    /\ strsB = NoStrings /\ tstep = "idle"
    /\ driver = "none" /\ dirIn = {} /\ mappingIn = <<>> /\ batchOut = NoBatch
    /\ bstep = "idle"
    /\ mapIn1 = <<>> /\ mapIn2 = <<>> /\ multilineArg = FALSE /\ appendArg = FALSE
    /\ mapOut = NoMapping /\ mapStep = "idle"
    /\ selTsv \in UNION { [set -> SelTsvPool] : set \in (SUBSET SelModulePool) \ {{}} }
    /\ selDir = <<>>
    /\ selRan = {}
    /\ parCalls = <<>> /\ parState = <<>> /\ parFiles = <<>>

\* python tsv2tex.py <module>.tsv output_dir, for a module of the set not yet run
RunTsv2Tex ==
    \E module \in DOMAIN selTsv \ selRan :
        /\ selDir' = tsv2tex(selDir, module, selTsv[module])
        /\ selRan' = selRan \cup {module}
        /\ UNCHANGED selTsv
        /\ UNCHANGED <<fontVars, msgVars, texVars, batchVars, mapVars, parVars>>

SelNext == RunTsv2Tex

---------------------------------------------------------------------------
(* Two calls at the same time, each on its own input and output file.  A    *)
(* call is [kind, input, field]; what a call keeps while it runs is in its  *)
(* local variables: its position, the number of loop steps done, and the    *)
(* lists it has read so far.  One step of a call is one read of a record or *)
(* one write to its output file, and the steps of the two calls interleave. *)

\* the two calls
Calls == {1, 2}

\* the calls that can be made: parse_msg_file on a file of two records, on a file whose
\* second text lies before the first, and on a cut-off file; create_msg_file on two rows,
\* on a row with a blank cell, and on a row whose noun is 256; convert_tsv_to_tex on two
\* lines (texts and selectors) and on a line with a Greek text
ParMsgFile ==
    MsgLayout([res |-> <<15, 0>>, version |-> 5010, last_id |-> 338],
              << <<1, 2, 3, 4, 5, 6, 7, 8, 9>>, <<255, 0, 17, 1, 99, 0, 0, 0, 0>> >>,
              << <<66, 66>>, <<128>> >>)
ParCsvRows ==
    << CsvRow(<<1, 2, 3, 4, 5, 6, 7, 8, 9>>, IntCell(0), <<1488>>),
       CsvRow(<<255, 0, 17, 1, 99, 0, 0, 0, 0>>, IntCell(0), <<66, 66>>) >>
ParTsv == [exists |-> TRUE, text |-> TsvHeaderLine \o TsvLine(0, <<1488>>) \o TsvLine(1, <<66>>)]
CallPool ==
    { [kind |-> "parse_msg_file", input |-> f, field |-> 0] :
          f \in {ParMsgFile, SwapOffsets(ParMsgFile), SubSeq(ParMsgFile, 1, 20)} }
    \cup { [kind |-> "create_msg_file", input |-> [exists |-> TRUE, rows |-> rows], field |-> 0] :
          rows \in {ParCsvRows,
                    <<CsvRow(<<1, 2, 3, 4, 5, 6, 7, 8, 9>>, BlankCell, <<65>>)>>,
                    <<[CsvRow(<<1, 2, 3, 4, 5, 6, 7, 8, 9>>, IntCell(0), <<65>>)
                          EXCEPT !.noun = IntCell(256)]>>} }
    \cup { [kind |-> "convert_tsv_to_tex", input |-> ParTsv, field |-> 4],
           [kind |-> "convert_tsv_to_tex", input |-> ParTsv, field |-> 2],
           [kind |-> "convert_tsv_to_tex", field |-> 4,
            input |-> [exists |-> TRUE, text |-> TsvHeaderLine \o TsvLine(0, <<945>>)]] }

\* a call that has not started: nothing read, no output file
NotStarted == [pc |-> "start", k |-> 0, message_headers |-> <<>>, messages |-> <<>>]

\* what stops create_msg_file before it opens its output file
CreateRaisesEarly(csv) ==
    \/ \E i \in 1..Len(csv.rows) : ~RowIsNumeric(csv.rows[i])
    \/ \E i \in 1..Len(csv.rows) : ~CanEncodeMsgText(UniversalNewlines(csv.rows[i].text))

\* the writes of a building call, in the order it makes them
CallWrites(call) ==
    IF call.kind = "create_msg_file"
    THEN MsgWrites(call.input.rows,
             [i \in 1..Len(call.input.rows) |->
                 EncodeMsgText(UniversalNewlines(call.input.rows[i].text))])
    ELSE LET lines == LinesOf(call.input.text)
         IN  <<WriteBytes(<<131, 0>>)>>
             \o Flatten([i \in 1..Len(lines) |-> TexLineWrites(lines[i], call.field)])

\* the number of loop steps of a call: a header and a text per record, or the writes
CallSteps(call) ==
    IF call.kind = "parse_msg_file" THEN 2 * MsgCount(call.input)
    ELSE Len(CallWrites(call))

\* mutant of StepsDone: one counter kept for both calls
StepsDoneShared(p) == parState[1].k + parState[2].k

\* the loop steps call p has done, a local variable of the call
StepsDone(p) == parState[p].k

ParInit ==
    /\ fontIn = NoFile /\ pngA = NoPngs /\ lineHeightArg = 0 /\ fontOut = NoOutcome
    /\ pngB = NoPngs /\ fstep = "idle"
    /\ msgIn = NoFile /\ csvFile = NoCsv /\ msgOut = NoOutcome /\ msgs2 = NoMsgs
    /\ mstep = "idle"
    /\ texIn = NoFile /\ strsA = NoStrings /\ tsvFile = NoTsv /\ texOut = NoOutcome
    /\ strsB = NoStrings /\ tstep = "idle"
    /\ driver = "none" /\ dirIn = {} /\ mappingIn = <<>> /\ batchOut = NoBatch
    /\ bstep = "idle"
    /\ mapIn1 = <<>> /\ mapIn2 = <<>> /\ multilineArg = FALSE /\ appendArg = FALSE
    /\ mapOut = NoMapping /\ mapStep = "idle"
    /\ selTsv = <<>> /\ selDir = <<>> /\ selRan = {}
    /\ parCalls \in [Calls -> CallPool]
    /\ parState = [p \in Calls |-> NotStarted]
    /\ parFiles = [p \in Calls |-> NoFile]

\* the call is entered: parse_msg_file opens its input and reads the twelve bytes
\* before the records; create_msg_file reads its CSV, encodes the texts and opens its
\* output; convert_tsv_to_tex opens its output
CallBegin(p) ==
    LET call == parCalls[p]
        raises == \/ call.kind = "parse_msg_file" /\ Len(call.input) < 12
                  \/ call.kind = "create_msg_file" /\ CreateRaisesEarly(call.input)
    IN  /\ parState[p].pc = "start"
        /\ parState' = [parState EXCEPT ![p].pc = IF raises THEN "failed" ELSE "running"]
        /\ parFiles' = IF raises \/ call.kind = "parse_msg_file" THEN parFiles
                       ELSE [parFiles EXCEPT ![p] = FileOf(<<>>)]
        /\ UNCHANGED parCalls
        /\ UNCHANGED <<fontVars, msgVars, texVars, batchVars, mapVars, selVars>>

\* one loop step of parse_msg_file: the next record of the table, or, after the table,
\* the text of the next header
ParseStep(p) ==
    LET call == parCalls[p]
        f == call.input
        count == MsgCount(f)
        k == StepsDone(p)
        header == parState[p].message_headers[k + 1 - count]
    IN  /\ parState[p].pc = "running" /\ call.kind = "parse_msg_file"
        /\ k < CallSteps(call)
        /\ parState' =
             IF k < count
             THEN IF Len(f) < 12 + 11 * (k + 1)
                  THEN [parState EXCEPT ![p].pc = "failed"]
                  ELSE [parState EXCEPT ![p].k = @ + 1,
                            ![p].message_headers = Append(@, ReadMsgHeader(f, 12 + 11 * k))]
             ELSE [parState EXCEPT ![p].k = @ + 1,
                       ![p].messages = Append(@, WithText(header,
                           DecodeMsgText(ReadCString(f, 2 + header.text_offset))))]
        /\ UNCHANGED <<parCalls, parFiles>>
        /\ UNCHANGED <<fontVars, msgVars, texVars, batchVars, mapVars, selVars>>

\* one write of create_msg_file or convert_tsv_to_tex to its own output file; a write
\* that raises ends the call and leaves the file as it is
WriteStep(p) ==
    LET call == parCalls[p]
        w == CallWrites(call)[StepsDone(p) + 1]
    IN  /\ parState[p].pc = "running" /\ call.kind # "parse_msg_file"
        /\ StepsDone(p) < CallSteps(call)
        /\ parState' = IF w.ok THEN [parState EXCEPT ![p].k = @ + 1]
                       ELSE [parState EXCEPT ![p].pc = "failed"]
        /\ parFiles' = IF w.ok THEN [parFiles EXCEPT ![p].bytes = @ \o w.bytes]
                       ELSE parFiles
        /\ UNCHANGED parCalls
        /\ UNCHANGED <<fontVars, msgVars, texVars, batchVars, mapVars, selVars>>

\* the loops are over: the call returns
CallReturn(p) ==
    /\ parState[p].pc = "running"
    /\ StepsDone(p) = CallSteps(parCalls[p])
    /\ parState' = [parState EXCEPT ![p].pc = "done"]
    /\ UNCHANGED <<parCalls, parFiles>>
    /\ UNCHANGED <<fontVars, msgVars, texVars, batchVars, mapVars, selVars>>

ParNext ==
    \/ \E p \in DOMAIN parCalls : CallBegin(p)
    \/ \E p \in DOMAIN parCalls : ParseStep(p)
    \/ \E p \in DOMAIN parCalls : WriteStep(p)
    \/ \E p \in DOMAIN parCalls : CallReturn(p)

---------------------------------------------------------------------------
(* Claims about the font codec *)

\* the indices of a PNG directory cover 0..max_index without a gap
Dense(pngs) ==
    /\ pngs # {}
    /\ PngIndices(pngs) = 0..MaxIndex(PngIndices(pngs))

\* C1: font byte round trip: build_font on the directory parse_font exported from a
\* well-formed font F writes a file byte-for-byte equal to F (reserved, numChars,
\* lineHeight, pointer table and glyph payloads included).
C1_FontByteRoundTrip ==
    (fontIn.exists /\ fontIn.bytes \in WellFormedFonts /\ fstep \in {"built", "reparsed"})
        => (fontOut.status = "ok" /\ fontOut.bytes = fontIn.bytes)

\* C2: font glyph round trip: for a PNG directory whose indices densely cover
\* 0..max_index, build_font succeeds and parse_font of the built file yields the
\* same files: the same index, width, height and pixels for every glyph.
C2_GlyphRoundTrip ==
    Dense(pngA.pngs) =>
        /\ fstep \in {"built", "reparsed"} => fontOut.status = "ok"
        /\ fstep = "reparsed" => (pngB.status = "ok" /\ pngB.pngs = pngA.pngs)

\* a two-glyph dense directory holding the 9-pixel-wide glyph was built and parsed back
C2_Witness ==
    /\ fstep = "reparsed"
    /\ ~fontIn.exists
    /\ Dense(pngA.pngs)
    /\ Cardinality(pngA.pngs) >= 2
    /\ \E p \in pngA.pngs : p.img.w = 9 /\ p.img.h = 2


FontBuilt == fstep \in {"built", "reparsed"}

\* file offset of the glyph entry of index i (0-based): the stored pointer plus 2
GlyphAddress(f, i) == UnpackU16(ReadAt(f, 8 + 2 * i, 2)) + 2

\* the highest index of a PNG directory that is not empty
HighestIndex(pngs) == CHOOSE m \in {p.idx : p \in pngs} : \A q \in pngs : q.idx <= m

\* C18: gap filling in the font builder: numChars is max_index + 1; every index of
\* 0..max_index without a PNG has the entry width=0, height=0 with no bitmap bytes
\* (the next entry starts two bytes later); and parse_font of the built font exports
\* a PNG for exactly the indices that had one, the others being empty.
C18_GapFilling ==
    (FontBuilt /\ pngA.pngs # {}) =>
        LET f == fontOut.bytes
            present == {p.idx : p \in pngA.pngs}
            max_index == HighestIndex(pngA.pngs)
        IN  /\ fontOut.status = "ok"
            /\ FontNumChars(f) = max_index + 1
            /\ \A i \in (0..max_index) \ present :
                    /\ ReadAt(f, GlyphAddress(f, i), 2) = <<0, 0>>
                    /\ GlyphAddress(f, i + 1) = GlyphAddress(f, i) + 2
            /\ fstep = "reparsed" =>
                    /\ pngB.status = "ok"
                    /\ {p.idx : p \in pngB.pngs} = present

\* glyphs at 5 and 9 only: numChars is 10 and the parse reports 0-4 and 6-8 as empty
C18_Witness ==
    /\ fstep = "reparsed"
    /\ {p.idx : p \in pngA.pngs} = {5, 9}
    /\ FontNumChars(fontOut.bytes) = 10
    /\ {p.idx : p \in pngB.pngs} = {5, 9}
    /\ \A i \in {0, 1, 2, 3, 4, 6, 7, 8} :
            ReadAt(fontOut.bytes, GlyphAddress(fontOut.bytes, i), 2) = <<0, 0>>

\* bit k (0 = least significant) of a byte
BitOf(b, k) == (b \div Pow2(k)) % 2

\* ceil(width / 8)
RowBytes(width) == CHOOSE r \in 0..width : 8 * r >= width /\ 8 * (r - 1) < width

\* pixel (x, y), 0-based, of the glyph stored at address a of the font f: bit 7 - x%8 of
\* byte y*rowBytes + x/8 of its bitmap
StoredPixel(f, a, x, y) ==
    BitOf(f[a + 2 + (y * RowBytes(f[a + 1])) + (x \div 8) + 1], 7 - (x % 8))

\* C19: pixel packing is MSB-first and the two directions are inverse: the builder
\* stores pixel (x, y) of an image as bit 7 - x%8 of byte y*rowBytes + x/8 of the
\* glyph's bitmap, rowBytes = ceil(width/8), 1 for foreground, and leaves the
\* padding bits of each row 0; the parser reads pixel (x, y) from that same bit.
C19_PixelPackingMsbFirst ==
    /\ (FontBuilt /\ fontOut.status = "ok") =>
            \A p \in pngA.pngs :
                LET f == fontOut.bytes
                    a == GlyphAddress(f, p.idx)
                IN  /\ f[a + 1] = p.img.w /\ f[a + 2] = p.img.h
                    /\ \A y \in 0..(p.img.h - 1) : \A x \in 0..(8 * RowBytes(p.img.w) - 1) :
                            StoredPixel(f, a, x, y)
                                = IF x < p.img.w THEN p.img.px[y + 1][x + 1] ELSE 0
    /\ (fontIn.exists /\ fstep # "start" /\ fontIn.bytes \in WellFormedFonts) =>
            \A p \in pngA.pngs :
                LET f == fontIn.bytes
                    a == GlyphAddress(f, p.idx)
                IN  /\ p.img.w = f[a + 1] /\ p.img.h = f[a + 2]
                    /\ \A y \in 0..(p.img.h - 1) : \A x \in 0..(p.img.w - 1) :
                            p.img.px[y + 1][x + 1] = StoredPixel(f, a, x, y)

\* the glyph width=8, height=1, byte 11110000 was parsed to four foreground and four
\* background pixels, and built back to the byte 11110000
C19_Witness ==
    /\ FontBuilt /\ fontIn.exists /\ fontOut.status = "ok"
    /\ ReadAt(fontIn.bytes, GlyphAddress(fontIn.bytes, 0), 3) = <<8, 1, 240>>
    /\ \E p \in pngA.pngs : p.idx = 0 /\ p.img.px = << <<1, 1, 1, 1, 0, 0, 0, 0>> >>
    /\ ReadAt(fontOut.bytes, GlyphAddress(fontOut.bytes, 0), 3) = <<8, 1, 240>>

\* width, height and bitmap length of the glyph build_font stores for index j: those
\* of the file j.png, or 0, 0 and no bitmap when the directory has no such file
SlotWidth(j) == IF \E p \in pngA.pngs : p.idx = j
                THEN (CHOOSE p \in pngA.pngs : p.idx = j).img.w ELSE 0
SlotHeight(j) == IF \E p \in pngA.pngs : p.idx = j
                 THEN (CHOOSE p \in pngA.pngs : p.idx = j).img.h ELSE 0
SlotBitmapLen(j) == SlotHeight(j) * RowBytes(SlotWidth(j))

\* 2 + len(bitmap[j]) summed over the slots below i
PayloadBytesBelow(i) == SumSeq([k \in 1..i |-> 2 + SlotBitmapLen(k - 1)])

---------------------------------------------------------------------------
(* Claims about the message table codec *)

MsgBuilt == mstep \in {"built", "reparsed"}

\* the textOffset stored in record i (1-based) of a message file
StoredOffsetIn(f, i) == UnpackU16(ReadAt(f, 12 + 11 * (i - 1) + 5, 2))

\* the texts create_msg_file read from the CSV, and their encoded bytes
CsvTexts == [i \in 1..Len(csvFile.rows) |-> UniversalNewlines(csvFile.rows[i].text)]
CsvEncoded == [i \in 1..Len(csvFile.rows) |-> EncodeMsgText(CsvTexts[i])]

\* encoded length plus terminator of the texts before text i (1-based)
PrecedingTextBytes(i) == SumSeq([j \in 1..(i - 1) |-> Len(CsvEncoded[j]) + 1])

\* C3: message-table round trip: for a valid message binary M, create_msg_file on the
\* records parse_msg_file returned writes a file that differs from M at most in the
\* resource header, sciVersion and lastId: dataSize, count, every record (nine byte
\* fields and textOffset) and every text byte with its terminator equal those of M.
C3_MsgRoundTrip ==
    (msgIn.exists /\ msgIn.bytes \in ValidMsgFiles /\ MsgBuilt) =>
        /\ msgOut.status = "ok"
        /\ ReadAt(msgOut.bytes, 6, 2) = ReadAt(msgIn.bytes, 6, 2)
        /\ SubSeq(msgOut.bytes, 11, Len(msgOut.bytes)) = SubSeq(msgIn.bytes, 11, Len(msgIn.bytes))

\* C4: offset correctness: in the file create_msg_file wrote, the bytes at absolute
\* position 2 + textOffset[i] are the encoded bytes of text i followed by a null byte,
\* and parse_msg_file of that file returns text i for record i.
C4_OffsetCorrectness ==
    /\ (MsgBuilt /\ msgOut.status = "ok") =>
            \A i \in 1..Len(csvFile.rows) :
                ReadAt(msgOut.bytes, 2 + StoredOffsetIn(msgOut.bytes, i), Len(CsvEncoded[i]) + 1)
                    = CsvEncoded[i] \o <<0>>
    /\ mstep = "reparsed" =>
            /\ msgs2.status = "ok"
            /\ Len(msgs2.messages) = Len(csvFile.rows)
            /\ \A i \in 1..Len(csvFile.rows) : msgs2.messages[i].text = CsvTexts[i]

RecordTableLen == (2 + StoredOffsetIn(msgOut.bytes, 1)) - 12

TextBytesWithTerminators == SumSeq([j \in 1..Len(csvFile.rows) |-> Len(CsvEncoded[j]) + 1])

\* C6 as claimed: dataSize is the byte length of the record table plus the encoded
\* length of every text plus one terminator per text, and nothing else.
C6_DataSizeTableAndTexts ==
    (MsgBuilt /\ msgOut.status = "ok") =>
        MsgDataSize(msgOut.bytes)
            = (IF Len(csvFile.rows) = 0 THEN 0 ELSE RecordTableLen) + TextBytesWithTerminators

\* C6 amended: dataSize is 4 (the lastId and count fields) plus the byte length of the
\* record table (11 per record) plus the encoded length of every text plus one
\* terminator per text: every byte of the file after the dataSize field.
C6_DataSizeWithIdAndCount ==
    (MsgBuilt /\ msgOut.status = "ok") =>
        /\ MsgDataSize(msgOut.bytes)
                = 4 + 11 * Len(csvFile.rows) + TextBytesWithTerminators
        /\ MsgDataSize(msgOut.bytes) = Len(msgOut.bytes) - 8

\* two records with texts of different lengths were built
C6_Witness ==
    /\ MsgBuilt /\ msgOut.status = "ok"
    /\ Len(csvFile.rows) = 2
    /\ Len(CsvEncoded[1]) = 1 /\ Len(CsvEncoded[2]) = 2
    /\ MsgDataSize(msgOut.bytes) = 31

\* the CSV with its text_offset cells replaced by alt
WithOffsets(csv, alt) ==
    [exists |-> csv.exists,
     rows |-> [i \in 1..Len(csv.rows) |-> [csv.rows[i] EXCEPT !.text_offset = alt[i]]]]

OffsetAlternatives == { IntCell(0), IntCell(300), BlankCell }

\* C7: the builder never uses the text_offset values of its input: an input that
\* differs only in the text_offset cells of its rows has the same outcome and gives
\* a byte-identical file.
C7_OffsetsNotUsed ==
    MsgBuilt =>
        \A alt \in [1..Len(csvFile.rows) -> OffsetAlternatives] :
            create_msg_file(WithOffsets(csvFile, alt)) = msgOut


\* the bytes of text i (1-based) in a built file: from 2 + textOffset[i] to its null
TextBytesIn(f, i) == ReadCString(f, 2 + StoredOffsetIn(f, i))

\* every one-byte cell of the row holds a value from 0 to 255
RowFitsBytes(row) == \A k \in 1..Len(ByteFields) : FitsU8(row[ByteFields[k]].val)

C20_HeaderFieldsPreserved ==
    (msgIn.exists /\ msgIn.bytes \in ValidMsgFiles /\ MsgBuilt /\ msgOut.status = "ok") =>
        /\ ReadAt(msgOut.bytes, 0, 2) = ReadAt(msgIn.bytes, 0, 2)
        /\ ReadAt(msgOut.bytes, 2, 4) = ReadAt(msgIn.bytes, 2, 4)
        /\ MsgLastId(msgOut.bytes) = MsgLastId(msgIn.bytes)

\* the nine one-byte fields of record i (1-based) of a message file, in file order
RecordFieldsIn(f, i) ==
    SubSeq(f, 12 + 11 * (i - 1) + 1, 12 + 11 * (i - 1) + 5)
    \o SubSeq(f, 12 + 11 * (i - 1) + 8, 12 + 11 * (i - 1) + 11)

\* the nine one-byte cells of a CSV row, in the same order
RowFields(row) ==
    <<row.noun.val, row.verb.val, row.case.val, row.sequence.val, row.talker.val,
      row.ref_noun.val, row.ref_verb.val, row.ref_case.val, row.ref_sequence.val>>

\* C24: record order is positional identity in the message codec: parse_msg_file
\* returns exactly count messages, the i-th with the fields of the i-th record of the
\* file and the text found at that record's own textOffset; create_msg_file writes
\* the records and the texts in the order of its input rows; so after parse, build
\* and parse again index i still denotes the record with the same fields.
C24_RecordOrderIsIdentity ==
    /\ (msgIn.exists /\ mstep # "start" /\ csvFile.exists) =>
            /\ Len(csvFile.rows) = MsgCount(msgIn.bytes)
            /\ \A i \in 1..Len(csvFile.rows) :
                    /\ RowFields(csvFile.rows[i]) = RecordFieldsIn(msgIn.bytes, i)
                    /\ csvFile.rows[i].text
                            = DecodeCP862(ReadCString(msgIn.bytes,
                                                      2 + StoredOffsetIn(msgIn.bytes, i)))
    /\ (MsgBuilt /\ msgOut.status = "ok") =>
            /\ MsgCount(msgOut.bytes) = Len(csvFile.rows)
            /\ \A i \in 1..Len(csvFile.rows) :
                    /\ RecordFieldsIn(msgOut.bytes, i) = RowFields(csvFile.rows[i])
                    /\ TextBytesIn(msgOut.bytes, i) = CsvEncoded[i]
                    /\ i > 1 => StoredOffsetIn(msgOut.bytes, i)
                                    = StoredOffsetIn(msgOut.bytes, i - 1)
                                      + Len(CsvEncoded[i - 1]) + 1
    /\ mstep = "reparsed" =>
            /\ msgs2.status = "ok"
            /\ Len(msgs2.messages) = Len(csvFile.rows)
            /\ \A i \in 1..Len(csvFile.rows) :
                    /\ msgs2.messages[i].noun = csvFile.rows[i].noun.val
                    /\ msgs2.messages[i].verb = csvFile.rows[i].verb.val
                    /\ msgs2.messages[i].case = csvFile.rows[i].case.val
                    /\ msgs2.messages[i].sequence = csvFile.rows[i].sequence.val
                    /\ msgs2.messages[i].talker = csvFile.rows[i].talker.val
                    /\ msgs2.messages[i].ref_noun = csvFile.rows[i].ref_noun.val
                    /\ msgs2.messages[i].ref_verb = csvFile.rows[i].ref_verb.val
                    /\ msgs2.messages[i].ref_case = csvFile.rows[i].ref_case.val
                    /\ msgs2.messages[i].ref_sequence = csvFile.rows[i].ref_sequence.val

\* a file whose record 1 points at the text "BB" stored behind the text "A" of record
\* 2 was parsed to rows "BB", "A", built and parsed again: the file holds "BB" first
C24_Witness ==
    /\ mstep = "reparsed"
    /\ msgIn.bytes \in ShuffledMsgFiles
    /\ StoredOffsetIn(msgIn.bytes, 1) > StoredOffsetIn(msgIn.bytes, 2)
    /\ csvFile.rows[1].text = <<66, 66>> /\ csvFile.rows[2].text = <<65>>
    /\ RowFields(csvFile.rows[1]) # RowFields(csvFile.rows[2])
    /\ TextBytesIn(msgOut.bytes, 1) = <<66, 66>>
    /\ StoredOffsetIn(msgOut.bytes, 1) < StoredOffsetIn(msgOut.bytes, 2)
    /\ msgs2.messages[1].text = <<66, 66>>
---------------------------------------------------------------------------
(* Claims about the string resource codec *)

TexBuilt == tstep \in {"built", "reparsed"}

\* a text resource that starts with the magic and ends with a null terminator
ValidTex(f) == Len(f) >= 3 /\ ReadAt(f, 0, 2) = <<131, 0>> /\ f[Len(f)] = 0

\* C9: string-resource byte round trip: for a text resource X that starts with the
\* magic and ends with a null terminator, tex2tsv followed by tsv2tex (field 4)
\* writes a file byte-identical to X.
C9_TexByteRoundTrip ==
    (TexBuilt /\ ValidTex(texIn.bytes)) =>
        (texOut.status = "ok" /\ texOut.bytes = texIn.bytes)

\* positions (1-based, in the bytes after the header) of the null bytes of f
NullPositions(f) == {p \in 1..(Len(f) - 2) : f[p + 2] = 0}
\* position of the i-th null (0 for i = 0)
NthNull(f, i) ==
    IF i = 0 THEN 0
    ELSE CHOOSE p \in NullPositions(f) : Cardinality({q \in NullPositions(f) : q < p}) = i - 1
\* the bytes between the (i-1)-th and the i-th null
BytesBeforeNull(f, i) == SubSeq(f, NthNull(f, i - 1) + 3, NthNull(f, i) + 1)

\* C10: the string-resource parse returns one string per null byte after the 2-byte
\* header, in stream order, string i being (the decoding of) the bytes between null
\* i-1 and null i; nothing is returned for the bytes after the last null, and an
\* empty string with its own terminator is returned.
C10_OneStringPerNull ==
    tstep # "start" =>
        /\ Len(strsA.strings) = Cardinality(NullPositions(texIn.bytes))
        /\ \A i \in 1..Len(strsA.strings) :
                strsA.strings[i] = DecodeTexString(BytesBeforeNull(texIn.bytes, i))

\* 83 00 41 42 00 43 00 was parsed to "AB", "C"; and so was a resource with an empty string
C10_Witness ==
    /\ tstep = "parsed"
    /\ texIn.bytes = <<131, 0, 65, 66, 0, 67, 0>>
    /\ strsA.strings = << <<65, 66>>, <<67>> >>


\* the chunks of a text resource between null bytes, the one after the last null left out
RawStrings(f) ==
    LET raw_strings == SplitOn(SubSeq(f, 3, Len(f)), 0)
    IN  SubSeq(raw_strings, 1, Len(raw_strings) - 1)

\* f with every byte after the header that Windows-1255 cannot decode replaced by "A"
Repaired(f) ==
    [p \in 1..Len(f) |-> IF p > 2 /\ ~CanDecode1255(<<f[p]>>) THEN 65 ELSE f[p]]

\* C14: in the string-resource parser a string that cannot be decoded does not abort
\* the resource: the parse succeeds, that string is "" at its position, every other
\* string keeps its index and value, and the number of strings is the same as for the
\* resource in which every string can be decoded.
C14_UndecodableBecomesEmpty ==
    (texIn.exists /\ tstep # "start") =>
        LET raw == RawStrings(texIn.bytes)
            repaired == read_tex_strings(Repaired(texIn.bytes))
        IN  /\ strsA.status = "ok"
            /\ Len(strsA.strings) = Len(raw)
            /\ Len(strsA.strings) = Len(repaired)
            /\ \A i \in 1..Len(raw) :
                    IF CanDecode1255(raw[i])
                    THEN strsA.strings[i] = DecodeCP1255(raw[i]) /\ strsA.strings[i] = repaired[i]
                    ELSE strsA.strings[i] = <<>>

\* 83 00 81 00 41 00 was parsed: "" for the string that cannot be decoded, then "A"
C14_Witness ==
    /\ tstep = "parsed"
    /\ texIn.bytes = <<131, 0, 129, 0, 65, 0>>
    /\ strsA.strings = << <<>>, <<65>> >>
    /\ read_tex_strings(Repaired(texIn.bytes)) = << <<65>>, <<65>> >>

\* the Text column (field 4) of the numbered lines of the TSV file
TsvTexts ==
    LET lines == LinesOf(tsvFile.text)
        numbered == SelectSeq(lines, LAMBDA line : IsNumeric(SplitOn(line, 9)[1]))
    IN  [i \in 1..Len(numbered) |->
            LET fields == SplitOn(numbered[i], 9)
            IN  IF Len(fields) >= 5 THEN fields[5] ELSE <<>>]

\* C28: tsv2tex writes one null-terminated string per TSV line whose first field is
\* numeric, in line order, and nothing for any other line: the output holds exactly
\* as many terminators after the magic as the TSV has numeric-index lines, and the
\* i-th string is the encoded Text field of the i-th such line ("" when the line
\* has fewer columns).
C28_OneStringPerNumericLine ==
    TexBuilt =>
        /\ texOut.exists
        /\ ReadAt(texOut.bytes, 0, 2) = <<131, 0>>
        /\ Cardinality(NullPositions(texOut.bytes)) = Len(TsvTexts)
        /\ texOut.bytes[Len(texOut.bytes)] = 0
        /\ \A i \in 1..Len(TsvTexts) :
                CanEncode1255(TsvTexts[i]) =>
                    BytesBeforeNull(texOut.bytes, i) = EncodeCP1255(TsvTexts[i])
---------------------------------------------------------------------------
(* Claims about all three codecs *)

\* C8: idempotence: parse(build(parse(X))) = parse(X) for a font (numChars,
\* lineHeight, glyphs), a message table (records and texts) and a string resource
\* (list of strings); the build in the middle succeeds.
C8_Idempotence ==
    /\ (fontIn.exists /\ fontIn.bytes \in WellFormedFonts /\ fstep \in {"built", "reparsed"}) =>
            /\ fontOut.status = "ok"
            /\ FontNumChars(fontOut.bytes) = FontNumChars(fontIn.bytes)
            /\ FontLineHeight(fontOut.bytes) = FontLineHeight(fontIn.bytes)
    /\ (fontIn.exists /\ fontIn.bytes \in WellFormedFonts /\ fstep = "reparsed") => pngB = pngA
    /\ (msgIn.exists /\ msgIn.bytes \in ValidMsgFiles /\ MsgBuilt) => msgOut.status = "ok"
    /\ (msgIn.exists /\ msgIn.bytes \in ValidMsgFiles /\ mstep = "reparsed") =>
            msgs2 = parse_msg_file(msgIn.bytes)
    /\ (texIn.exists /\ TexBuilt) => texOut.status = "ok"
    /\ (texIn.exists /\ tstep = "reparsed") => strsB = strsA

\* some read parse_font makes of the font f reaches past the end of f
FontReadsPastEnd(f) ==
    \/ Len(f) < 8
    \/ Len(f) < 8 + 2 * FontNumChars(f)
    \/ \E i \in 0..(FontNumChars(f) - 1) :
            LET a == UnpackU16(ReadAt(f, 8 + 2 * i, 2)) + 2
            IN  \/ a + 2 > Len(f)
                \/ /\ f[a + 1] # 0 /\ f[a + 2] # 0
                   /\ a + 2 + f[a + 2] * ((f[a + 1] + 7) \div 8) > Len(f)

\* some read parse_msg_file makes of the message file f reaches past the end of f: the
\* header, the record table, or a text that has no null byte from 2 + textOffset on
MsgReadsPastEnd(f) ==
    \/ Len(f) < 12
    \/ Len(f) < 12 + 11 * MsgCount(f)
    \/ \E i \in 1..MsgCount(f) :
            LET text_pos == 2 + UnpackU16(ReadAt(f, 12 + 11 * (i - 1) + 5, 2))
            IN  \A p \in (text_pos + 1)..Len(f) : f[p] # 0

\* C16: every read that reaches past the end of the input fails and never yields
\* short data: a font with a glyph whose bitmap is cut off makes parse_font fail, and
\* a message file whose textOffset or text runs past the end of the file without a
\* terminator makes parse_msg fail, so that no CSV is exported from it.
C16_ReadPastEndFails ==
    /\ (fontIn.exists /\ fstep # "start" /\ FontReadsPastEnd(fontIn.bytes)) =>
            pngA.status = "error"
    /\ (msgIn.exists /\ MsgReadsPastEnd(msgIn.bytes)) =>
            (mstep = "start" /\ ~csvFile.exists)

\* C21: no partial output: when create_msg_file, convert_tsv_to_tex or build_font
\* fails, the output file at the target path was not created; a failure in the
\* middle of a build (a value that does not fit its u8/u16 field, a string that
\* cannot be encoded) never leaves a truncated file behind.
C21_NoPartialOutput ==
    /\ fontOut.status = "error" => ~fontOut.exists
    /\ msgOut.status = "error" => ~msgOut.exists
    /\ texOut.status = "error" => ~texOut.exists

---------------------------------------------------------------------------
(* Claims about decoding, encoding and whole-directory runs *)

BatchDone(d) == bstep = "done" /\ driver = d

\* the file of the listing that a result is about
FileNamed(name) == CHOOSE x \in dirIn : x.name = name

\* the file with its first two bytes replaced by the magic header 0x83 0x00
WithMagic(file) ==
    [name |-> file.name, readable |-> file.readable,
     bytes |-> <<131, 0>> \o SubSeq(file.bytes, 3, Len(file.bytes))]

\* C11: decode totality: the text decoder of the message-table parser and of the
\* string-resource readers yields some string for every byte sequence: parse_msg_file
\* succeeds on every file that holds its header and record table, read_tex_strings
\* succeeds on every resource, and no readable file of a translation run ends the
\* run by a failure to decode it.
C11_DecodeTotality ==
    /\ (msgIn.exists /\ ~MsgReadsPastEnd(msgIn.bytes)) =>
            parse_msg_file(msgIn.bytes).status = "ok"
    /\ (texIn.exists /\ tstep # "start") => strsA.status = "ok"
    /\ BatchDone("apply_translations") =>
            \A i \in 1..Len(batchOut.results) :
                FileNamed(batchOut.results[i].name).readable =>
                    (batchOut.results[i].result = "ok" \/ batchOut.results[i].out.exists)

\* C13: string-resource build encodes each string on its own, with the chain
\* Windows-1255, UTF-8, Latin-1: tsv2tex and the translation pass write every string
\* with its terminator, also one that holds a character Windows-1255 lacks, and every
\* string Windows-1255 can encode is written as its Windows-1255 bytes.
C13_EncodeFallbackPerString ==
    /\ (~texIn.exists /\ TexBuilt) =>
            /\ texOut.status = "ok"
            /\ Len(RawStrings(texOut.bytes)) = Len(TsvTexts)
            /\ \A i \in 1..Len(TsvTexts) :
                    CanEncode1255(TsvTexts[i]) =>
                        RawStrings(texOut.bytes)[i] = EncodeCP1255(TsvTexts[i])
    /\ BatchDone("apply_translations") =>
            \A i \in 1..Len(batchOut.results) :
                LET file == FileNamed(batchOut.results[i].name)
                    read == loop_strings(file.bytes)
                IN  (file.readable /\ read.status = "ok") =>
                        /\ batchOut.results[i].result = "ok"
                        /\ Len(RawStrings(batchOut.results[i].out.bytes))
                                = Len(MessagesOf(read.strings))

\* C15: a mismatch of the 2-byte magic header of a string resource is only warned
\* about: the reader consumes the first two bytes and returns what it returns for the
\* same remaining bytes behind the header 0x83 0x00, in tex2tsv and in the
\* translation pass.
C15_HeaderMismatchOnlyWarns ==
    /\ (texIn.exists /\ tstep # "start" /\ Len(texIn.bytes) >= 2) =>
            /\ strsA.status = "ok"
            /\ strsA.strings
                    = read_tex_strings(<<131, 0>> \o SubSeq(texIn.bytes, 3, Len(texIn.bytes)))
    /\ BatchDone("apply_translations") =>
            \A i \in 1..Len(batchOut.results) :
                LET file == FileNamed(batchOut.results[i].name)
                IN  (file.readable /\ Len(file.bytes) >= 2) =>
                        batchOut.results[i].out
                            = translate_file(WithMagic(file), load_mapping(mappingIn))

\* the files the loop of the run goes through, in its order
LoopFiles ==
    IF driver = "tex2tsv" THEN SortedFiles(TextFiles(dirIn)) ELSE SortedFiles(dirIn)

\* what the run does with a file when the file is the only one of the directory
AloneResult(file) ==
    LET alone == IF driver = "apply_translations" THEN apply_translations({file}, mappingIn)
                 ELSE IF driver = "tex2tsv" THEN tex2tsv_directory({file})
                 ELSE parse_all_msg_files({file})
    IN  alone.results[1]

\* C17: batch isolation: in a whole-directory run (tex2tsv directory mode,
\* parse_all_msg_files, apply_translations) a failure on one file does not end the
\* run: every file of the run is processed, with the result it has alone.
C17_BatchIsolation ==
    bstep = "done" =>
        /\ Len(batchOut.results) = Len(LoopFiles)
        /\ \A i \in 1..Len(batchOut.results) :
                batchOut.results[i] = AloneResult(LoopFiles[i])

\* the byte strings of a text resource before each of its null bytes, without the
\* header string 0x83 when the resource starts with it
InputStrings(f) ==
    LET chunks == SplitOn(f, 0)
        raw == SubSeq(chunks, 1, Len(chunks) - 1)
    IN  IF raw # <<>> /\ raw[1] = <<131>> THEN Tail(raw) ELSE raw

\* C26: the translation pass keeps positional identity: for every input text
\* resource apply_translations writes the magic 0x83 0x00 followed by exactly as
\* many null-terminated strings as the input has after its header, in the same
\* order; the i-th is the mapped translation of the i-th input string when a
\* matching strategy finds one, and otherwise the i-th input string itself.
C26_TranslationKeepsPositions ==
    BatchDone("apply_translations") =>
        \A file \in dirIn :
            file.readable =>
                \E i \in 1..Len(batchOut.results) :
                    LET out == batchOut.results[i].out
                        ins == InputStrings(file.bytes)
                        outs == InputStrings(out.bytes)
                    IN  /\ batchOut.results[i].name = file.name
                        /\ out.exists
                        /\ ReadAt(out.bytes, 0, 2) = <<131, 0>>
                        /\ Len(outs) = Len(ins)
                        /\ \A k \in 1..Len(ins) :
                                CanDecode1252(ins[k]) =>
                                    LET translated == Translated(DecodeCP1252(ins[k]),
                                                                 load_mapping(mappingIn))
                                    IN  CanEncode1255(translated) =>
                                            outs[k] = EncodeCP1255(translated)

\* the run wrote a TSV file for the file of that name
Converted(name) ==
    \E i \in 1..Len(batchOut.results) :
        batchOut.results[i].name = name /\ batchOut.results[i].result = "ok"

\* the decimal name of the number before the number a numeric name stands for
NameBefore(name) ==
    LET digits == [i \in 1..Len(name) |-> IF name[i] = 178 THEN 50 ELSE name[i]]
    IN  PrevModule(digits)

\* C29: in tex2tsv directory mode a file X.tex (one that can be read) is converted
\* if and only if X is not numeric or (X-1).tex is absent from the directory listing;
\* the test is made against the unfiltered listing.
C29_SelectorFilter ==
    BatchDone("tex2tsv") =>
        \A x \in dirIn :
            x.readable =>
                (Converted(x.name)
                    <=> (~IsNumeric(x.name) \/ ~\E y \in dirIn : y.name = NameBefore(x.name)))

\* the number of results of the run with that result
CountResults(result) ==
    Cardinality({i \in 1..Len(batchOut.results) : batchOut.results[i].result = result})

\* parse_msg.py or process_messages.py ends with a non-zero status for the file
ScriptFails(file) ==
    \/ ~file.readable
    \/ parse_msg_file(file.bytes).status # "ok"
    \/ LET exported == export_to_csv(parse_msg_file(file.bytes).messages)
           csv == IF exported.exists THEN exported ELSE file.stale
       IN  csv.exists /\ \E i \in 1..Len(csv.rows) :
                ~(/\ csv.rows[i].noun.num /\ csv.rows[i].verb.num
                  /\ csv.rows[i].case.num /\ csv.rows[i].sequence.num)

\* C30: parse_all_msg_files attempts every discovered .msg file exactly once, in
\* sorted order, and terminates; processed + failed is the number of discovered
\* files, a file is counted as failed exactly when parse_msg.py or
\* process_messages.py failed for it, and a failure does not keep the files after
\* it from being attempted.
C30_EveryFileAttemptedOnce ==
    BatchDone("parse_all_msg_files") =>
        /\ batchOut.status = "completed"
        /\ Len(batchOut.results) = Cardinality(dirIn)
        /\ \A x \in dirIn :
                Cardinality({i \in 1..Len(batchOut.results) :
                                batchOut.results[i].name = x.name}) = 1
        /\ \A i \in 1..(Len(batchOut.results) - 1) :
                LexLess(batchOut.results[i].name, batchOut.results[i + 1].name)
        /\ batchOut.processed + batchOut.failed = Cardinality(dirIn)
        /\ batchOut.failed = CountResults("failed")
        /\ \A i \in 1..Len(batchOut.results) :
                batchOut.results[i].result = "failed"
                    <=> ScriptFails(FileNamed(batchOut.results[i].name))
---------------------------------------------------------------------------
(* Properties of the mapping of two text files *)

\* the positions map_files goes through: the overlap of the two inputs
Overlap == Min(Len(MapEntries(mapIn1, multilineArg)), Len(MapEntries(mapIn2, multilineArg)))

\* the pair of position i, a blank line taken as the empty one in line mode
PairOf(i) ==
    LET e1 == MapEntries(mapIn1, multilineArg)[i]
        e2 == MapEntries(mapIn2, multilineArg)[i]
        blank(e) == ~multilineArg /\ Strip(e) = <<>>
    IN  (IF blank(e1) THEN <<>> ELSE e1) \o PairSeparator
        \o (IF blank(e2) THEN <<>> ELSE e2) \o Newline

\* the second entry of position i starts with the ignore mark
Ignored(i) == MatchAt(MapEntries(mapIn2, multilineArg)[i], IgnoreMark, 1)

\* in line mode, both lines of position i are blank
BothBlank(i) ==
    /\ ~multilineArg
    /\ Strip(MapEntries(mapIn1, multilineArg)[i]) = <<>>
    /\ Strip(MapEntries(mapIn2, multilineArg)[i]) = <<>>

\* what the run added to the mapping file
MapWritten ==
    IF appendArg
    THEN SubSeq(mapOut.text, Len(PreviousMapping) + 1, Len(mapOut.text))
    ELSE mapOut.text

---------------------------------------------------------------------------
(* Properties of tsv2tex runs into one directory *)

\* C27: after tsv2tex has been run, with selector creation, for every module of a set
\* into one output directory, in any order, <M>.tex holds the field-4 text strings of
\* module M for every module M of the set: no selector file written as <N+1>.tex has
\* replaced the text file of module N+1
C27_TextFilesSurviveSelectors ==
    selRan # {} /\ selRan = DOMAIN selTsv =>
        \A M \in DOMAIN selTsv :
            /\ M \in DOMAIN selDir
            /\ selDir[M] = convert_tsv_to_tex(selTsv[M], 4).bytes

---------------------------------------------------------------------------
(* Properties of two calls at the same time *)

\* call p is over
Over(p) == parState[p].pc \in {"done", "failed"}

\* what call p gives when it is the only call: status, messages returned, output file
Alone(p) ==
    LET call == parCalls[p]
        parsed == parse_msg_file(call.input)
        built == IF call.kind = "create_msg_file" THEN create_msg_file(call.input)
                 ELSE convert_tsv_to_tex(call.input, call.field)
    IN  IF call.kind = "parse_msg_file"
        THEN [status |-> parsed.status, messages |-> parsed.messages, file |-> NoFile]
        ELSE [status |-> built.status, messages |-> <<>>,
              file |-> [exists |-> built.exists, bytes |-> built.bytes]]

\* C22: for every interleaving of two parse or build calls that work on different input
\* and output files, each call, when it is over, has produced exactly what it produces as
\* the only call: the same status, the same returned messages, the same output file
C22_CallsAreIndependent ==
    \A p \in DOMAIN parCalls :
        Over(p) =>
            /\ (parState[p].pc = "done") = (Alone(p).status = "ok")
            /\ parState[p].pc = "done" => parState[p].messages = Alone(p).messages
            /\ parFiles[p] = Alone(p).file

\* both calls are over after their steps were interleaved: a build of two records and a
\* parse of two records, each with the result it gives alone
C22_Witness ==
    /\ parCalls[1].kind = "create_msg_file" /\ parCalls[2].kind = "parse_msg_file"
    /\ parState[1].pc = "done" /\ parState[2].pc = "done"
    /\ Len(parState[2].messages) = 2
    /\ Len(parFiles[1].bytes) = 39

---------------------------------------------------------------------------
(* Specifications: one per codec, one for the whole-directory runs, one for
   map_files, one for tsv2tex runs into one directory, one for two calls at
   the same time, and all of them together *)

SpecFont == FontInit /\ [][FontNext]_vars
SpecMsg == MsgInit /\ [][MsgNext]_vars
SpecTex == TexInit /\ [][TexNext]_vars
SpecBatch == BatchInit /\ [][BatchNext]_vars
SpecMap == MapInit /\ [][MapNext]_vars
SpecSel == SelInit /\ [][SelNext]_vars
SpecPar == ParInit /\ [][ParNext]_vars

Init == FontInit \/ MsgInit \/ TexInit \/ BatchInit \/ MapInit \/ SelInit \/ ParInit
Next == FontNext \/ MsgNext \/ TexNext \/ BatchNext \/ MapNext \/ SelNext \/ ParNext
Spec == Init /\ [][Next]_vars

===========================================================================
